---- MODULE Spec2Model ----
(***************************************************************************)
(* SENTINEL ground station backend: serial reader thread -> parser manager *)
(* -> WebSocket broadcast hub.                                             *)
(*                                                                         *)
(*   backend/serial_operations.py   SerialManager._read_continuously       *)
(*   backend/data_parser.py         decoders, DataParserManager            *)
(*   backend/websocket_server.py    WebSocketManager, the two callbacks    *)
(*   backend/sensor_fusion.py       process_telemetry_packet               *)
(***************************************************************************)
EXTENDS Integers, Sequences, FiniteSets, TLC

(***************************************************************************)
(* Bounds of the model.                                                    *)
(***************************************************************************)
\* lines the reader thread reads from its port before the model stops it
MaxLines == 2

\* decoders the clients add with add_custom_parser before the model stops them
MaxCustom == 1

\* parser commands a client sends before the model stops it
MaxCommands == 2

\* the integers up to MaxFloat in size stand for the integers a float can
\* hold (up to about 1.8e308), the larger ones for those it cannot
MaxFloat == 1000000

\* the resolution of the floats of the fusion engine: the integer n stands
\* for the float n / FP
FP == 1000

\* calls of process_imu_data before the model stops the callers
MaxCalls == 3

\* the callbacks registered with the parser manager
MaxCallbacks == 3

(***************************************************************************)
(* Constants of the program.                                               *)
(***************************************************************************)
\* SensorFusion.__init__: sample_rate, in Hz
SampleRate == 10

\* SensorFusion.__init__: history_size
DefaultHistorySize == 5

\* SensorFusion.calibrate: the samples it needs
MinCalibrationSamples == 10

(***************************************************************************)
(* Python values.                                                          *)
(***************************************************************************)
\* Optional[...]: None, or a value
None == [some |-> FALSE]
Some(v) == [some |-> TRUE, v |-> v]

\* a number a/b (float results of the unit conversions are kept exact)
Ratio(a, b) == [num |-> a, den |-> b]

\* int / float raises OverflowError: int too large to convert to float
FloatOverflow(n) == n > MaxFloat \/ n < -MaxFloat

\* the locals of a function that has raised out of its body
Raised == [_raised |-> "OverflowError"]
HasRaised(d) == "_raised" \in DOMAIN d

\* dict d after d[k] = v
DictSet(d, k, v) == (k :> v) @@ d

\* dict.get(k, default)
DictGet(d, k, default) == IF k \in DOMAIN d THEN d[k] ELSE default

\* the empty dict
EmptyDict == [k \in {} |-> 0]

(***************************************************************************)
(* Lines.  A line is what read_serial_port_line returns: the decoded text  *)
(* with surrounding whitespace stripped.  The text is kept as its first    *)
(* and last character, the comma separated tokens between them, whether    *)
(* it contains '*', and what json.loads makes of it.                       *)
(*   open   "<" | "$" | "{" | "" (none of these)                           *)
(*   close  ">" | "}" | ""                                                 *)
(*   parts  the tokens of text.split(','), brackets taken off              *)
(*   json   "object" (fields in obj) | "scalar" | "invalid"                *)
(* A token is its text s and, when s is a number, its kind and value.      *)
(***************************************************************************)
Text(s) == [s |-> s, kind |-> "text", num |-> 0, den |-> 1]
IntTok(s, n) == [s |-> s, kind |-> "int", num |-> n, den |-> 1]
FloatTok(s, a, b) == [s |-> s, kind |-> "float", num |-> a, den |-> b]

MkLine(open, close, star, parts, json, obj) ==
    [open |-> open, close |-> close, star |-> star, parts |-> parts,
     json |-> json, obj |-> obj]

\* "\r\n": nothing is left after strip()
BlankLine == MkLine("", "", FALSE, <<Text("")>>, "invalid", EmptyDict)

\* a boot message of the flight computer: no decoder accepts it
GarbageLine == MkLine("", "", FALSE, <<Text("SYSTEM READY")>>, "invalid", EmptyDict)

\* <05/27/2025,11:43:46,0.95,-37,-967,-3,128,-27,204,6,-53,20,1,1,0,24>
ArmedLine ==
    MkLine("<", ">", FALSE,
           <<Text("05/27/2025"), Text("11:43:46"), FloatTok("0.95", 95, 100),
             IntTok("-37", -37), IntTok("-967", -967), IntTok("-3", -3),
             IntTok("128", 128), IntTok("-27", -27), IntTok("204", 204),
             IntTok("6", 6), IntTok("-53", -53), IntTok("20", 20),
             IntTok("1", 1), IntTok("1", 1), IntTok("0", 0), IntTok("24", 24)>>,
           "invalid", EmptyDict)

\* {"temp":25.6,"pressure":1013.25}
JsonLine ==
    MkLine("{", "}", FALSE,
           <<Text("\"temp\":25.6"), Text("\"pressure\":1013.25")>>,
           "object",
           [temp |-> Ratio(256, 10), pressure |-> Ratio(101325, 100)])

\* an ARMED line with the fields at the given positions (1..16) replaced
ArmedLineWith(changes) ==
    [ArmedLine EXCEPT !.parts =
        [i \in 1..Len(ArmedLine.parts) |->
            IF i \in DOMAIN changes THEN changes[i] ELSE ArmedLine.parts[i]]]

\* <05/27/2025,11:43:46,0.95,1.5,-967,-3,128,-27,204,6,-53,20,1,1,0,N/A>:
\* accelX is no integer and the temperature is no number
ArmedBadFieldLine == ArmedLineWith((4 :> FloatTok("1.5", 15, 10)) @@ (16 :> Text("N/A")))

\* <05/27/2025,11:43:46,0.95,-37,-967,-3,1000...000,-27,204,6,-53,20,1,1,0,N/A>:
\* gyroX is an integer of 400 digits and the temperature is no number
ArmedHugeLine ==
    ArmedLineWith((7 :> IntTok("1000...000", MaxFloat + 1)) @@ (16 :> Text("N/A")))

\* ARMED lines with the given latitude, longitude and satellite count
ArmedGpsLine(lat, lon, sats) ==
    ArmedLineWith((13 :> IntTok("lat", lat)) @@ (14 :> IntTok("lon", lon))
                  @@ (15 :> IntTok("sats", sats)))

\* the values on both sides of the limits of _is_gps_valid
ArmedGpsLines ==
    {ArmedGpsLine(lat, 100001, sats) :
        lat \in {-100001, -100000, 100000, 100001}, sats \in {3, 4}}
    \cup {ArmedGpsLine(100001, lon, 4) : lon \in {-100001, -100000, 100000}}

\* {"a":1,"b":2,"c":3,"d":4,"e":5,"f":6,"g":7,"h":8,"i":9,"j":10}: a JSON
\* object with ten comma separated parts
JsonWideLine ==
    MkLine("{", "}", FALSE,
           <<Text("\"a\":1"), Text("\"b\":2"), Text("\"c\":3"), Text("\"d\":4"),
             Text("\"e\":5"), Text("\"f\":6"), Text("\"g\":7"), Text("\"h\":8"),
             Text("\"i\":9"), Text("\"j\":10")>>,
           "object",
           [a |-> 1, b |-> 2, c |-> 3, d |-> 4, e |-> 5, f |-> 6, g |-> 7, h |-> 8,
            i |-> 9, j |-> 10])

\* "a,b": a JSON string with a comma in it
JsonStringLine ==
    MkLine("", "", FALSE, <<Text("\"a"), Text("b\"")>>, "scalar", EmptyDict)

\* what the port delivers in this model
Lines == {BlankLine, GarbageLine, ArmedLine, JsonLine}

\* raw_data.strip() is empty
IsBlank(line) == Len(line.parts) = 1 /\ line.parts[1].s = "" /\ line.open = ""

\* datetime.strptime(date + "," + time, "%m/%d/%Y,%H:%M:%S") succeeds
ValidDates == {"05/27/2025"}
ValidTimes == {"11:43:46"}
StrptimeOk(date, time) == date \in ValidDates /\ time \in ValidTimes

(***************************************************************************)
(* ArmedStateTelemetryParser                                               *)
(***************************************************************************)
Armed_format_name == "ARMED_TELEMETRY"

\* field_mapping, index i of the source is position i + 1 here
Armed_field_mapping ==
    <<"date", "time", "altitude_m",
      "accel_x_mg", "accel_y_mg", "accel_z_mg",
      "gyro_x_centidps", "gyro_y_centidps", "gyro_z_centidps",
      "mag_x_decisla", "mag_y_decisla", "mag_z_decisla",
      "gps_lat_1e7", "gps_lon_1e7", "gps_satellites", "temperature_c">>

Armed_validate_format(line) ==
    /\ ~IsBlank(line)
    /\ line.open = "<" /\ line.close = ">"
    /\ Len(line.parts) = 16
    /\ StrptimeOk(line.parts[1].s, line.parts[2].s)

\* _convert_value: None when int()/float() raises ValueError
Armed_convert_value(field_name, tok) ==
    IF field_name \in {"date", "time"} THEN Some(tok.s)
    ELSE IF field_name = "altitude_m"
         THEN (IF tok.kind \in {"int", "float"}
               THEN Some(Ratio(tok.num, tok.den)) ELSE None)
    ELSE (IF tok.kind = "int" THEN Some(tok.num) ELSE None)

\* _is_gps_valid with the limits themselves counted as valid coordinates
Armed_is_gps_valid_inclusive(lat_1e7, lon_1e7, satellites) ==
    LET abs(x) == IF x < 0 THEN -x ELSE x
    IN  satellites >= 4 /\ abs(lat_1e7) >= 100000 /\ abs(lon_1e7) >= 100000

Armed_is_gps_valid(lat_1e7, lon_1e7, satellites) ==
    LET abs(x) == IF x < 0 THEN -x ELSE x
    IN  satellites >= 4 /\ abs(lat_1e7) > 100000 /\ abs(lon_1e7) > 100000

\* the fields whose value converts, by the field mapping
Armed_fields(line) ==
    LET conv(i) == Armed_convert_value(Armed_field_mapping[i], line.parts[i])
        idx == {i \in 1..Len(line.parts) :
                   i <= Len(Armed_field_mapping) /\ conv(i).some}
        ixOf(k) == CHOOSE i \in idx : Armed_field_mapping[i] = k
    IN  [k \in {Armed_field_mapping[i] : i \in idx} |-> conv(ixOf(k)).v]

\* d with the fields "<prefix>_<axis>_<to>" = d["<prefix>_<axis>_<from>"] / den,
\* when all three axes are present
Armed_scale(d, names, den) ==
    IF HasRaised(d) THEN d
    ELSE IF \E p \in names : p[1] \notin DOMAIN d THEN d
    ELSE IF \E p \in names : FloatOverflow(d[p[1]]) THEN Raised
    ELSE [k \in {p[2] : p \in names} |->
             Ratio(d[(CHOOSE p \in names : p[2] = k)[1]], den)] @@ d

\* "Create combined datetime": the ISO text and the unix time stand as the
\* date and time they are made of
Armed_datetime(d) ==
    IF HasRaised(d) THEN d
    ELSE IF "date" \in DOMAIN d /\ "time" \in DOMAIN d /\ StrptimeOk(d["date"], d["time"])
    THEN [datetime |-> <<d["date"], "T", d["time"]>>,
          timestamp |-> <<d["date"], d["time"]>>] @@ d
    ELSE d

\* "Convert GPS coordinates to decimal degrees"
Armed_gps_deg(d) ==
    IF HasRaised(d) THEN d
    ELSE IF ~("gps_lat_1e7" \in DOMAIN d /\ "gps_lon_1e7" \in DOMAIN d) THEN d
    ELSE IF FloatOverflow(d["gps_lat_1e7"]) \/ FloatOverflow(d["gps_lon_1e7"]) THEN Raised
    ELSE [gps_lat_deg |-> Ratio(d["gps_lat_1e7"], 10000000),
          gps_lon_deg |-> Ratio(d["gps_lon_1e7"], 10000000)] @@ d

Armed_accel_g(d) ==
    Armed_scale(d, {<<"accel_x_mg", "accel_x_g">>, <<"accel_y_mg", "accel_y_g">>,
                    <<"accel_z_mg", "accel_z_g">>}, 1000)

\* the gyroscope conversion dividing by 1000 as the accelerometer's does
Armed_gyro_dps_by_1000(d) ==
    Armed_scale(d, {<<"gyro_x_centidps", "gyro_x_dps">>,
                    <<"gyro_y_centidps", "gyro_y_dps">>,
                    <<"gyro_z_centidps", "gyro_z_dps">>}, 1000)

Armed_gyro_dps(d) ==
    Armed_scale(d, {<<"gyro_x_centidps", "gyro_x_dps">>,
                    <<"gyro_y_centidps", "gyro_y_dps">>,
                    <<"gyro_z_centidps", "gyro_z_dps">>}, 100)

Armed_mag_ut(d) ==
    Armed_scale(d, {<<"mag_x_decisla", "mag_x_ut">>, <<"mag_y_decisla", "mag_y_ut">>,
                    <<"mag_z_decisla", "mag_z_ut">>}, 10)

\* "Validate GPS data"
Armed_gps_valid(d) ==
    IF HasRaised(d) THEN d
    ELSE IF "gps_lat_1e7" \in DOMAIN d /\ "gps_lon_1e7" \in DOMAIN d
       /\ "gps_satellites" \in DOMAIN d
    THEN DictSet(d, "gps_valid",
                 Armed_is_gps_valid(d["gps_lat_1e7"], d["gps_lon_1e7"],
                                    d["gps_satellites"]))
    ELSE d

\* "Add metadata"; `except Exception: return None` when a step has raised
Armed_metadata(d, line) ==
    IF HasRaised(d) THEN None
    ELSE Some([_parser |-> Armed_format_name, _raw_data |-> line, _state |-> "ARMED"] @@ d)

Armed_parse(line) ==
    IF ~Armed_validate_format(line) THEN None
    ELSE CHOOSE result \in
            {Armed_metadata(d7, line) :
               d7 \in {Armed_gps_valid(d6) :
                 d6 \in {Armed_mag_ut(d5) :
                   d5 \in {Armed_gyro_dps(d4) :
                     d4 \in {Armed_accel_g(d3) :
                       d3 \in {Armed_gps_deg(d2) :
                         d2 \in {Armed_datetime(d1) :
                           d1 \in {Armed_fields(line)}}}}}}}} : TRUE

(***************************************************************************)
(* SentinelTelemetryParser                                                 *)
(***************************************************************************)
Sentinel_format_name == "SENTINEL_TELEMETRY"

Sentinel_field_mapping ==
    <<"timestamp", "satellites", "pressure", "temp", "accel_x", "accel_y",
      "accel_z", "gyro_x", "gyro_y", "gyro_z", "latitude", "longitude",
      "alt_gps", "alt_bmp">>

\* the brackets of a line are part of its first and last token here, so the
\* number of parts is the one ARMED counts
Sentinel_validate_format(line) ==
    ~IsBlank(line) /\ Len(line.parts) >= 10

Sentinel_convert_value(field_name, tok, bracketed) ==
    IF field_name = "timestamp" THEN Some(tok.s)
    ELSE IF bracketed THEN None
    ELSE IF field_name = "satellites"
         THEN (IF tok.kind = "int" THEN Some(tok.num) ELSE None)
    ELSE (IF tok.kind \in {"int", "float"}
          THEN Some(Ratio(tok.num, tok.den)) ELSE None)

\* self.field_mapping is a dict of the object: index i of the source is
\* position i + 1 here; of two positions with one field name the later wins
Sentinel_parse(self, line) ==
    IF ~Sentinel_validate_format(line) THEN None
    ELSE
    LET n == Len(line.parts)
        field_mapping == self.field_mapping
        \* a token that carries the opening or closing bracket is no number
        bracketed(i) == (i = 1 /\ line.open # "") \/ (i = n /\ line.close # "")
        conv(i) == Sentinel_convert_value(field_mapping[i], line.parts[i],
                                          bracketed(i))
        idx == {i \in 1..n : i \in DOMAIN field_mapping /\ conv(i).some}
        ixOf(k) == CHOOSE i \in idx :
                      /\ field_mapping[i] = k
                      /\ \A j \in idx : field_mapping[j] = k => j <= i
        d == [k \in {field_mapping[i] : i \in idx} |-> conv(ixOf(k)).v]
    IN  Some([_parser |-> Sentinel_format_name, _raw_data |-> line] @@ d)

(***************************************************************************)
(* NMEAParser                                                              *)
(***************************************************************************)
NMEA_format_name == "NMEA_GPS"

NMEA_validate_format(line) == line.open = "$" /\ line.star

NMEA_parse(line) ==
    IF ~NMEA_validate_format(line) THEN None
    ELSE Some([sentence_type |-> line.parts[1].s, raw_fields |-> line.parts,
               _parser |-> NMEA_format_name, _raw_data |-> line])

(***************************************************************************)
(* JSONParser                                                              *)
(***************************************************************************)
JSON_format_name == "JSON"

\* json.loads succeeds: any JSON value, not only an object
JSON_validate_format(line) == line.json \in {"object", "scalar"}

\* item assignment on a value that is no dict raises TypeError: None
JSON_parse(line) ==
    IF ~JSON_validate_format(line) THEN None
    ELSE IF line.json # "object" THEN None
    ELSE Some([_parser |-> JSON_format_name, _raw_data |-> line] @@ line.obj)

(***************************************************************************)
(* CustomDelimitedParser.  The only delimiter a line of this model can be  *)
(* split at is the comma (line.parts); a parser made with another          *)
(* delimiter finds it in no line.                                          *)
(***************************************************************************)
\* field_names is empty: the fields are named f"field_{i}"
Custom_field_name ==
    <<"field_0", "field_1", "field_2", "field_3", "field_4", "field_5", "field_6",
      "field_7", "field_8", "field_9", "field_10", "field_11", "field_12",
      "field_13", "field_14", "field_15">>

\* `self.delimiter in raw_data`
Custom_validate_format(delimiter, line) ==
    delimiter = "," /\ Len(line.parts) > 1

\* the parts as text (the brackets of the line stay in the first and the last
\* part), no conversion
Custom_parse(format_name, delimiter, line) ==
    IF ~Custom_validate_format(delimiter, line) THEN None
    ELSE LET n == Len(line.parts)
             part(i) == <<(IF i = 1 THEN line.open ELSE ""), line.parts[i].s,
                          (IF i = n THEN line.close ELSE "")>>
         IN  Some([_parser |-> format_name, _raw_data |-> line] @@
                  [k \in {Custom_field_name[i] : i \in 1..n} |->
                      part(CHOOSE i \in 1..n : Custom_field_name[i] = k)])

(***************************************************************************)
(* Decoder objects: the class, the format_name, for a                      *)
(* CustomDelimitedParser the delimiter and, for the SentinelTelemetryParser, *)
(* the field_mapping, which configure_sentinel_parser changes.             *)
(***************************************************************************)
ParserObject(cls, format_name, delimiter) ==
    [cls |-> cls, format_name |-> format_name, delimiter |-> delimiter,
     field_mapping |-> <<>>]

ArmedStateTelemetryParser == ParserObject("ArmedStateTelemetryParser", Armed_format_name, "")
SentinelTelemetryParser ==
    [ParserObject("SentinelTelemetryParser", Sentinel_format_name, "") EXCEPT
        !.field_mapping = Sentinel_field_mapping]
NMEAParser == ParserObject("NMEAParser", NMEA_format_name, "")
JSONParser == ParserObject("JSONParser", JSON_format_name, "")

\* CustomDelimitedParser(delimiter, field_names) as add_custom_parser makes it:
\* parser_name, when given, replaces the format_name
CustomDelimitedParser(delimiter, parser_name) ==
    ParserObject("CustomDelimitedParser",
                 IF parser_name.some THEN parser_name.v
                 ELSE IF delimiter = "," THEN "CUSTOM_DELIMITED_,"
                 ELSE "CUSTOM_DELIMITED_|",
                 delimiter)

\* "Register default parsers"
DefaultParsers ==
    <<ArmedStateTelemetryParser, SentinelTelemetryParser, NMEAParser, JSONParser>>

(***************************************************************************)
(* The state of the program.                                               *)
(***************************************************************************)
VARIABLES
    parsers,        \* DataParserManager.parsers: the decoders, in registration order
    active_parser,  \* DataParserManager.active_parser: None or Some(decoder)
    auto_detect,    \* DataParserManager.auto_detect
    connections,    \* WebSocketManager.connections
    sockets,        \* per WebSocket: where its websocket_endpoint coroutine is
    wire,           \* per WebSocket: the texts send_text has handed to it, in order
    tasks,          \* the broadcast coroutines run_coroutine_threadsafe has put on
                    \* the event loop, in the order of the calls
    records,        \* the dicts parse_data has returned (the heap: a telemetry
                    \* message holds a reference to its record, not a copy)
    reader,         \* the reader thread of the port: where it is, with which line
    readLog,        \* the lines the reader thread has read so far
    lastEnded,      \* the broadcast that ended last: what it did (observation only)
    fusion,         \* sensor_fusion: the global SensorFusion object
    frames,         \* per caller of the fusion engine: the frame of its call
    serial,         \* serial_manager: the dicts of the global SerialManager
    threads,        \* the reader threads started so far, each with its Event
    data_callbacks, \* DataParserManager.data_callbacks, in registration order
    parseLog,       \* the parse_data calls made through the callback list:
                    \* what each returned and the callbacks it invoked
    inbox           \* per WebSocket: the messages receive_text has returned

parserVars == <<parsers, active_parser, auto_detect>>
hubVars == <<connections, sockets, wire, tasks, lastEnded>>
readerVars == <<records, reader, readLog>>
fusionVars == <<fusion, frames>>
serialVars == <<serial, threads>>
callbackVars == <<data_callbacks, parseLog>>
extVars == <<fusionVars, serialVars, callbackVars, inbox>>
vars == <<parsers, active_parser, auto_detect, connections, sockets, wire, tasks,
          records, reader, readLog, lastEnded, fusion, frames, serial, threads,
          data_callbacks, parseLog, inbox>>

\* the port the reader thread reads
Port == "COM3"

\* the WebSocket objects of the clients, in the order the set's hash table holds
\* them (a set is iterated in table order)
WSOrder == <<"ws1", "ws2">>
WS == {WSOrder[i] : i \in 1..Len(WSOrder)}
Slot(w) == CHOOSE i \in 1..Len(WSOrder) : WSOrder[i] = w

(***************************************************************************)
(* DataParserManager                                                       *)
(***************************************************************************)
\* parser.validate_format(raw_data) and parser.parse(raw_data), by the class
\* of the decoder
validate_format(parser, line) ==
    CASE parser.cls = "ArmedStateTelemetryParser" -> Armed_validate_format(line)
      [] parser.cls = "SentinelTelemetryParser" -> Sentinel_validate_format(line)
      [] parser.cls = "NMEAParser" -> NMEA_validate_format(line)
      [] parser.cls = "JSONParser" -> JSON_validate_format(line)
      [] OTHER -> Custom_validate_format(parser.delimiter, line)

parse(parser, line) ==
    CASE parser.cls = "ArmedStateTelemetryParser" -> Armed_parse(line)
      [] parser.cls = "SentinelTelemetryParser" -> Sentinel_parse(parser, line)
      [] parser.cls = "NMEAParser" -> NMEA_parse(line)
      [] parser.cls = "JSONParser" -> JSON_parse(line)
      [] OTHER -> Custom_parse(parser.format_name, parser.delimiter, line)

\* `if parsed_data:` a dict that is not None and not empty
Truthy(parsed) == parsed.some /\ DOMAIN parsed.v # {}

\* the auto-detect loop without its break: the last decoder that accepts the
\* line and returns a record is the one whose record is returned
AutoDetect_last(ps, line) ==
    LET hit == {i \in 1..Len(ps) :
                   validate_format(ps[i], line) /\ Truthy(parse(ps[i], line))}
    IN  IF hit = {} THEN None
        ELSE parse(ps[CHOOSE i \in hit : \A j \in hit : i >= j], line)

\* the auto-detect loop of parse_data: the parsers are tried in order and the
\* first one that accepts the line and returns a record ends the loop
AutoDetect(ps, line) ==
    LET hit == {i \in 1..Len(ps) :
                   validate_format(ps[i], line) /\ Truthy(parse(ps[i], line))}
    IN  IF hit = {} THEN None
        ELSE parse(ps[CHOOSE i \in hit : \A j \in hit : i <= j], line)

\* parse_data falling back to the auto-detect loop when the active parser
\* returns nothing
parse_data_with_fallback(ps, active, auto, line) ==
    IF IsBlank(line) THEN None
    ELSE IF auto THEN AutoDetect(ps, line)
    ELSE IF active.some /\ Truthy(parse(active.v, line)) THEN parse(active.v, line)
    ELSE AutoDetect(ps, line)

\* parse_data without its callbacks (they are the caller's step below)
parse_data(ps, active, auto, line) ==
    IF IsBlank(line) THEN None
    ELSE IF auto THEN AutoDetect(ps, line)
    ELSE IF active.some THEN parse(active.v, line)
    ELSE None

\* a set_active_parser that falls back to auto-detection when no decoder has
\* the name
set_active_parser_or_auto(ps, active, auto, parser_name) ==
    LET named == {i \in 1..Len(ps) : ps[i].format_name = parser_name}
    IN  IF named = {}
        THEN [active_parser |-> None, auto_detect |-> TRUE, ok |-> FALSE]
        ELSE [active_parser |-> Some(ps[CHOOSE i \in named : \A j \in named : i <= j]),
              auto_detect |-> FALSE, ok |-> TRUE]

\* set_active_parser: the first decoder with that format_name becomes the
\* active one and auto-detection is switched off; ok is the return value
set_active_parser(ps, active, auto, parser_name) ==
    LET named == {i \in 1..Len(ps) : ps[i].format_name = parser_name}
    IN  IF named = {}
        THEN [active_parser |-> active, auto_detect |-> auto, ok |-> FALSE]
        ELSE [active_parser |-> Some(ps[CHOOSE i \in named : \A j \in named : i <= j]),
              auto_detect |-> FALSE, ok |-> TRUE]

\* an enable_auto_detection that keeps the active decoder
enable_auto_detection_keeping_active(ps, active, auto) ==
    [active_parser |-> active, auto_detect |-> TRUE]

\* enable_auto_detection
enable_auto_detection(ps, active, auto) ==
    [active_parser |-> None, auto_detect |-> TRUE]

\* the decoders configure_sentinel_parser looks at: the first instance of
\* SentinelTelemetryParser
SentinelParsers(ps) ==
    {i \in 1..Len(ps) :
        /\ ps[i].cls = "SentinelTelemetryParser"
        /\ \A j \in 1..(i - 1) : ps[j].cls # "SentinelTelemetryParser"}

\* configure_sentinel_parser(field_mapping), a dict with int keys:
\* `parser.field_mapping.update(field_mapping)` on that decoder
configure_sentinel_parser(ps, field_mapping) ==
    IF field_mapping = EmptyDict THEN ps
    ELSE [i \in 1..Len(ps) |->
            IF i \in SentinelParsers(ps)
            THEN [ps[i] EXCEPT !.field_mapping =
                    [k \in {n + 1 : n \in DOMAIN field_mapping} |->
                        field_mapping[k - 1]] @@ @]
            ELSE ps[i]]

\* a reference to a decoder after configure_sentinel_parser: the decoder it
\* referred to, which is one object with the entry of the list
SameObject(ps, configured, ref) ==
    IF ref.some /\ \E i \in SentinelParsers(ps) : ps[i] = ref.v
    THEN Some(configured[CHOOSE i \in SentinelParsers(ps) : TRUE])
    ELSE ref

\* add_custom_parser and register_parser: the new decoder goes to the end
add_custom_parser(ps, delimiter, parser_name) ==
    Append(ps, CustomDelimitedParser(delimiter, parser_name))

(***************************************************************************)
(* WebSocketManager                                                        *)
(***************************************************************************)
\* disconnect written with set.remove: KeyError for a socket that is not in the set
disconnect_remove(conns, w) == [conns |-> conns \ {w}, raised |-> w \notin conns]

\* disconnect: set.discard never raises; raised says whether the call raised
disconnect(conns, w) == [conns |-> conns \ {w}, raised |-> FALSE]

\* `for connection in disconnected: self.disconnect(connection)`
RECURSIVE RemoveDisconnected(_, _)
RemoveDisconnected(conns, disconnected) ==
    IF disconnected = {} THEN [conns |-> conns, raised |-> FALSE]
    ELSE LET c == CHOOSE w \in disconnected : TRUE
             r == disconnect(conns, c)
         IN  IF r.raised THEN r
             ELSE RemoveDisconnected(r.conns, disconnected \ {c})

\* json.dumps(message): the text a client gets.  A telemetry message is
\* serialised with the record as it is when the send is made.
Serialise(msg, recs) ==
    IF msg.type = "telemetry_data"
    THEN [type |-> msg.type, port |-> msg.port, n |-> msg.n,
          data |-> recs[msg.data.ref]]
    ELSE [type |-> msg.type, port |-> msg.port, n |-> msg.n, data |-> msg.data]

\* a broadcast coroutine that has not started.  start and attempted observe
\* the run: the connection set when the iteration began and the connections
\* send_text was called on.
NewTask(msg) ==
    [msg |-> msg, pc |-> "queued", pos |-> 0, used |-> 0, cur |-> "",
     disconnected |-> {}, start |-> {}, attempted |-> {}]

\* a coroutine that has returned or raised: its locals are gone
Ended(task, pc) == [NewTask(task.msg) EXCEPT !.pc = pc]

\* what is remembered of the broadcast that ended last: the event, the
\* connections that were in the set from its start to its end (stable), the
\* ones it called send_text on, the ones whose send raised, how it ended
NoBroadcast ==
    [type |-> "", n |-> 0, stable |-> {}, attempted |-> {}, failed |-> {},
     pc |-> ""]
Observe(task, conns, pc) ==
    [type |-> task.msg.type, n |-> task.msg.n, stable |-> task.start \cap conns,
     attempted |-> task.attempted, failed |-> task.disconnected, pc |-> pc]

\* next(iterator) of the set iterator: RuntimeError when the set's size is not
\* the size the iterator was made with, otherwise the next occupied slot
SetChangedSize(task, conns) == Cardinality(conns) # task.used
Remaining(task, conns) == {w \in conns : Slot(w) > task.pos}

\* The body of broadcast from one next(iterator) to the next suspension: a
\* send_text that raises adds the connection to disconnected and the loop goes
\* on without leaving the coroutine; a send_text that is accepted hands the
\* text to the socket and suspends the coroutine (pc = "awaiting", cur = the
\* socket).  The loop's end is pc = "cleanup".
RECURSIVE RunLoop(_, _, _)
RunLoop(task, conns, socks) ==
    IF SetChangedSize(task, conns) THEN [task EXCEPT !.pc = "crashed", !.cur = ""]
    ELSE IF Remaining(task, conns) = {} THEN [task EXCEPT !.pc = "cleanup", !.cur = ""]
    ELSE LET c == CHOOSE w \in Remaining(task, conns) :
                     \A v \in Remaining(task, conns) : Slot(w) <= Slot(v)
             t1 == [task EXCEPT !.pos = Slot(c), !.attempted = @ \cup {c}]
         IN  IF socks[c] = "open"
             THEN [t1 EXCEPT !.pc = "awaiting", !.cur = c]
             ELSE RunLoop([t1 EXCEPT !.disconnected = @ \cup {c}], conns, socks)

(***************************************************************************)
(* The messages of the two callbacks.  n is the number of the line in the  *)
(* port's stream: it stands for the message's timestamp and tells the      *)
(* events of different lines apart.                                        *)
(***************************************************************************)
console_message(port, data, n) ==
    [type |-> "console_data", port |-> port, data |-> data, n |-> n]

telemetry_message(parsed_data, ref, n) ==
    [type |-> "telemetry_data",
     port |-> DictGet(parsed_data, "_source_port", "unknown"),
     data |-> [ref |-> ref], n |-> n]

\* data_callback_for_broadcast: the coroutines it puts on the loop (main_loop
\* is set at startup, before any port can be opened)
data_callback_for_broadcast(parsed, ref, n) ==
    IF Truthy(parsed)
    THEN <<NewTask(telemetry_message(parsed.v, ref, n))>>
    ELSE <<>>

\* serial_data_callback publishing the console message only for a line that
\* some default decoder accepts
serial_data_callback_console_if_recognised(port, data, n) ==
    IF \E i \in 1..Len(DefaultParsers) : validate_format(DefaultParsers[i], data)
    THEN <<NewTask(console_message(port, data, n))>>
    ELSE <<>>

\* the first part of serial_data_callback: the console broadcast it schedules
serial_data_callback_console(port, data, n) ==
    <<NewTask(console_message(port, data, n))>>

\* `if data and port in self.data_callbacks`: the line is handed to the callback
CallbackInvoked(data) == ~IsBlank(data)

\* the callbacks calling .result() on the futures: the thread goes on only
\* when every coroutine it has scheduled has ended
ThreadWaitsForResult(ts) == \A i \in 1..Len(ts) : ts[i].pc \in {"done", "crashed"}

\* run_coroutine_threadsafe returns a future at once and the callbacks drop
\* it: whatever the coroutines in `ts` are doing, the thread may go on
ThreadMayProceed(ts) == TRUE

(***************************************************************************)
(* sensor_fusion.process_telemetry_packet: the record with the orientation *)
(* of the fusion filter merged in, when it has the six IMU fields.         *)
(***************************************************************************)
required_fields ==
    {"accel_x_g", "accel_y_g", "accel_z_g", "gyro_x_dps", "gyro_y_dps", "gyro_z_dps"}

process_telemetry_packet(parsed_data) ==
    IF ~(required_fields \subseteq DOMAIN parsed_data) THEN parsed_data
    ELSE [orientation_roll |-> "roll", orientation_pitch |-> "pitch",
          orientation_yaw |-> "yaw", quaternion_w |-> "w", quaternion_x |-> "x",
          quaternion_y |-> "y", quaternion_z |-> "z", _sensor_fusion |-> TRUE,
          _fusion_algorithm |-> "Madgwick"] @@ parsed_data

(***************************************************************************)
(* sensor_fusion.py.  Floats are fixed-point numbers: the integer n stands *)
(* for n / FP.  A float that may be NaN is a record [nan, x]; an array     *)
(* whose elements become NaN together is a record [nan, v].                *)
(***************************************************************************)
\* a / b rounded to the nearest integer
Div(a, b) ==
    IF a >= 0 THEN (a + b \div 2) \div b ELSE -(((-a) + b \div 2) \div b)

\* the product and the quotient of two floats
Mul(a, b) == Div(a * b, FP)
Quot(a, b) == Div(a * FP, b)

\* the strict evaluation of F at the value of e
Bind(e, F(_)) == CHOOSE r \in {F(x) : x \in {e}} : TRUE

RECURSIVE IsqrtIter(_, _, _)
IsqrtIter(n, lo, hi) ==
    IF lo >= hi THEN lo
    ELSE LET mid == (lo + hi + 1) \div 2
         IN  IF mid * mid <= n THEN IsqrtIter(n, mid, hi) ELSE IsqrtIter(n, lo, mid - 1)

\* the largest integer whose square is at most n
Isqrt(n) == IsqrtIter(n, 0, 46340)

RECURSIVE SumSeq(_)
SumSeq(s) == IF s = <<>> THEN 0 ELSE Head(s) + SumSeq(Tail(s))

\* np.linalg.norm
Norm(v) == Isqrt(SumSeq([i \in DOMAIN v |-> v[i] * v[i]]))

\* v / np.linalg.norm(v), for a norm n that is not zero
Normalised(v, n) == [i \in DOMAIN v |-> Quot(v[i], n)]

\* math.pi, math.radians, math.degrees
Pi == Div(355 * FP, 113)
radians(x) == Div(x * Pi, 180 * FP)
degrees(x) == Div(x * 180 * FP, Pi)

\* a float, and the float that is not a number
Float(x) == [nan |-> FALSE, x |-> x]
NaN == [nan |-> TRUE, x |-> 0]

\* arctan(t) for 0 <= t <= 1 (within 0.004 rad)
ArctanUnit(t) == Div(Div(Pi, 4) * t + Div(273 * FP, 1000) * Mul(t, FP - t), FP)

\* arctan2(y, x) for x >= 0, y >= 0
ArctanQuadrant(y, x) ==
    IF x = 0 /\ y = 0 THEN 0
    ELSE IF y <= x THEN ArctanUnit(Quot(y, x))
    ELSE Div(Pi, 2) - ArctanUnit(Quot(x, y))

\* np.arctan2 and math.atan2: an angle in [-pi, pi]
arctan2(y, x) ==
    Bind(ArctanQuadrant(IF y < 0 THEN -y ELSE y, IF x < 0 THEN -x ELSE x),
         LAMBDA a : LET b == IF x < 0 THEN Pi - a ELSE a
                    IN  IF y < 0 THEN -b ELSE b)

\* np.arcsin for -1 < s < 1
arcsin(s) == arctan2(s, Isqrt(FP * FP - s * s))

\* math.sin for an angle in [0, 2 pi) (within 0.002)
SinHalfTurn(x) ==
    Bind(x * (Pi - x), LAMBDA p : Div(16 * p, Div(5 * Pi * Pi - 4 * p, FP)))
sin(x) == IF x <= Pi THEN SinHalfTurn(x) ELSE -SinHalfTurn(x - Pi)
cos(x) == IF x + Div(Pi, 2) < 2 * Pi THEN sin(x + Div(Pi, 2))
          ELSE sin(x + Div(Pi, 2) - 2 * Pi)

\* the values of the IMU samples and of the filter parameters
Half == Div(FP, 2)
Gravity == Div(981 * FP, 100)

\* IMUData
IMUData(accel, gyro, mag, timestamp) ==
    [accel |-> accel, gyro |-> gyro, mag |-> mag, timestamp |-> timestamp]

\* a quaternion (w, x, y, z): np.array of four floats
Quaternion(w, x, y, z) == [nan |-> FALSE, v |-> <<w, x, y, z>>]
IdentityQuaternion == Quaternion(FP, 0, 0, 0)
NaNQuaternion == [nan |-> TRUE, v |-> <<0, 0, 0, 0>>]

\* MadgwickFilter._quaternion_multiply and _quaternion_conjugate
quaternion_multiply(q1, q2) ==
    << Mul(q1[1], q2[1]) - Mul(q1[2], q2[2]) - Mul(q1[3], q2[3]) - Mul(q1[4], q2[4]),
       Mul(q1[1], q2[2]) + Mul(q1[2], q2[1]) + Mul(q1[3], q2[4]) - Mul(q1[4], q2[3]),
       Mul(q1[1], q2[3]) - Mul(q1[2], q2[4]) + Mul(q1[3], q2[1]) + Mul(q1[4], q2[2]),
       Mul(q1[1], q2[4]) + Mul(q1[2], q2[3]) - Mul(q1[3], q2[2]) + Mul(q1[4], q2[1]) >>
quaternion_conjugate(q) == <<q[1], -q[2], -q[3], -q[4]>>

\* J.T.dot(F)
JTdotF(J, F) ==
    [j \in 1..4 |-> SumSeq([i \in DOMAIN F |-> Mul(J[i][j], F[i])])]

\* the objective function and its Jacobian without magnetometer
Madgwick_F_imu(q, accel) ==
    << 2 * (Mul(q[2], q[4]) - Mul(q[1], q[3])) - accel[1],
       2 * (Mul(q[1], q[2]) + Mul(q[3], q[4])) - accel[2],
       2 * (Half - Mul(q[2], q[2]) - Mul(q[3], q[3])) - accel[3] >>
Madgwick_J_imu(q) ==
    << <<-2 * q[3], 2 * q[4], -2 * q[1], 2 * q[2]>>,
       <<2 * q[2], 2 * q[1], 2 * q[4], 2 * q[3]>>,
       <<0, -4 * q[2], -4 * q[3], 0>> >>

\* the reference direction of the Earth's magnetic field
Madgwick_b(q, mag) ==
    Bind(quaternion_multiply(q, quaternion_multiply(<<0, mag[1], mag[2], mag[3]>>,
                                                    quaternion_conjugate(q))),
         LAMBDA h : <<0, Isqrt(h[2] * h[2] + h[3] * h[3]), 0, h[4]>>)

\* the objective function and its Jacobian with magnetometer
Madgwick_F_mag(q, accel, mag, b) ==
    Madgwick_F_imu(q, accel) \o
    << 2 * Mul(b[2], Half - Mul(q[3], q[3]) - Mul(q[4], q[4]))
         + 2 * Mul(b[4], Mul(q[2], q[4]) - Mul(q[1], q[3])) - mag[1],
       2 * Mul(b[2], Mul(q[2], q[3]) - Mul(q[1], q[4]))
         + 2 * Mul(b[4], Mul(q[1], q[2]) + Mul(q[3], q[4])) - mag[2],
       2 * Mul(b[2], Mul(q[1], q[3]) + Mul(q[2], q[4]))
         + 2 * Mul(b[4], Half - Mul(q[2], q[2]) - Mul(q[3], q[3])) - mag[3] >>
Madgwick_J_mag(q, b) ==
    Madgwick_J_imu(q) \o
    << << -2 * Mul(b[4], q[3]), 2 * Mul(b[4], q[4]),
          -4 * Mul(b[2], q[3]) - 2 * Mul(b[4], q[1]),
          -4 * Mul(b[2], q[4]) + 2 * Mul(b[4], q[2]) >>,
       << -2 * Mul(b[2], q[4]) + 2 * Mul(b[4], q[2]),
          2 * Mul(b[2], q[3]) + 2 * Mul(b[4], q[1]),
          2 * Mul(b[2], q[2]) + 2 * Mul(b[4], q[4]),
          -2 * Mul(b[2], q[1]) + 2 * Mul(b[4], q[3]) >>,
       << 2 * Mul(b[2], q[3]), 2 * Mul(b[2], q[4]) - 4 * Mul(b[4], q[2]),
          2 * Mul(b[2], q[1]) - 4 * Mul(b[4], q[3]), 2 * Mul(b[2], q[2]) >> >>

\* the gradient descent corrective step, before it is normalised
Madgwick_step(q, accel, mag) ==
    IF mag.some /\ Norm(mag.v) > 0
    THEN Bind(Normalised(mag.v, Norm(mag.v)), LAMBDA m :
         Bind(Madgwick_b(q, m), LAMBDA b :
         Bind(Madgwick_F_mag(q, accel, m, b), LAMBDA F :
         Bind(Madgwick_J_mag(q, b), LAMBDA J : JTdotF(J, F)))))
    ELSE Bind(Madgwick_F_imu(q, accel), LAMBDA F :
         Bind(Madgwick_J_imu(q), LAMBDA J : JTdotF(J, F)))

\* q + qDot * sample_period, qDot = 0.5 * q (x) (0, gyro) - beta * step
Madgwick_integrate(q, gyro, step, beta, sample_period) ==
    Bind(quaternion_multiply(q, <<0, gyro[1], gyro[2], gyro[3]>>), LAMBDA qg :
         [i \in 1..4 |-> q[i] + Mul(Mul(Half, qg[i]) - Mul(beta, step[i]),
                                    sample_period)])

\* MadgwickFilter.update.  step / np.linalg.norm(step) is 0 / 0 when the step
\* is zero: every element of the step, and so of the quaternion, becomes NaN
\* (numpy warns, it does not raise).  A NaN quaternion stays NaN.
Madgwick_update(self, gyro, accel, mag) ==
    IF Norm(accel) = 0 \/ self.quaternion.nan THEN self
    ELSE Bind(Normalised(accel, Norm(accel)), LAMBDA a :
         Bind(Madgwick_step(self.quaternion.v, a, mag), LAMBDA step :
         Bind(Norm(step), LAMBDA n :
            IF n = 0 THEN [self EXCEPT !.quaternion = NaNQuaternion]
            ELSE Bind(Madgwick_integrate(self.quaternion.v, gyro, Normalised(step, n),
                                         self.beta, self.sample_period), LAMBDA q :
                 Bind(Norm(q), LAMBDA n2 :
                    [self EXCEPT !.quaternion =
                        IF n2 = 0 THEN NaNQuaternion
                        ELSE [nan |-> FALSE, v |-> Normalised(q, n2)]])))))

\* MadgwickFilter.get_euler_angles: (roll, pitch, yaw) in radians
get_euler_angles(self) ==
    IF self.quaternion.nan THEN <<NaN, NaN, NaN>>
    ELSE LET w == self.quaternion.v[1]
             x == self.quaternion.v[2]
             y == self.quaternion.v[3]
             z == self.quaternion.v[4]
             sinp == 2 * (Mul(w, y) - Mul(z, x))
         IN  << Float(arctan2(2 * (Mul(w, x) + Mul(y, z)),
                              FP - 2 * (Mul(x, x) + Mul(y, y)))),
                Float(IF sinp >= FP THEN Div(Pi, 2)
                      ELSE IF sinp <= -FP THEN -Div(Pi, 2)
                      ELSE arcsin(sinp)),
                Float(arctan2(2 * (Mul(w, z) + Mul(x, y)),
                              FP - 2 * (Mul(y, y) + Mul(z, z)))) >>

\* np.fmod and np.clip
fmod(x, m) == IF x >= 0 THEN x % m ELSE -((-x) % m)
clip(x, lo, hi) == IF x < lo THEN lo ELSE IF x > hi THEN hi ELSE x

\* ComplementaryFilter.update
Complementary_update(self, accel, gyro, dt) ==
    LET accel_roll == arctan2(accel[2], accel[3])
        accel_pitch == arctan2(-accel[1],
                               Isqrt(accel[2] * accel[2] + accel[3] * accel[3]))
        roll == Mul(self.alpha, self.roll + Mul(gyro[1], dt))
                    + Mul(FP - self.alpha, accel_roll)
        pitch == Mul(self.alpha, self.pitch + Mul(gyro[2], dt))
                    + Mul(FP - self.alpha, accel_pitch)
    IN  [self EXCEPT !.roll = fmod(roll + Pi, 2 * Pi) - Pi,
                     !.pitch = clip(pitch, -Div(Pi, 2), Div(Pi, 2))]

\* Orientation
Orientation(roll, pitch, yaw, quaternion) ==
    [roll |-> roll, pitch |-> pitch, yaw |-> yaw, quaternion |-> quaternion]

\* SensorFusion.__init__ with its default arguments
SensorFusion ==
    [use_magnetometer |-> TRUE,
     sample_period |-> Div(FP, SampleRate),
     madgwick |-> [sample_period |-> Div(FP, SampleRate), beta |-> Div(FP, 10),
                   quaternion |-> IdentityQuaternion],
     complementary |-> [alpha |-> Div(98 * FP, 100), roll |-> 0, pitch |-> 0],
     accel_offset |-> <<0, 0, 0>>,
     gyro_offset |-> <<0, 0, 0>>,
     mag_offset |-> <<0, 0, 0>>,
     mag_scale |-> <<FP, FP, FP>>,
     orientation_history |-> <<>>,
     history_size |-> DefaultHistorySize,
     last_update_time |-> None,
     is_calibrated |-> FALSE]

\* np.mean, np.max and np.min over the samples, per axis
Mean(s) == Div(SumSeq(s), Len(s))
Max(s) == CHOOSE x \in {s[i] : i \in DOMAIN s} : \A i \in DOMAIN s : s[i] <= x
Min(s) == CHOOSE x \in {s[i] : i \in DOMAIN s} : \A i \in DOMAIN s : x <= s[i]
Axis(samples, field, k) == [i \in DOMAIN samples |-> samples[i][field][k]]

\* calibrate without the minimum number of samples: any call marks the engine
\* calibrated
calibrate_any_count(self, imu_samples) == [self EXCEPT !.is_calibrated = TRUE]

\* SensorFusion.calibrate (stationary)
calibrate(self, imu_samples) ==
    IF Len(imu_samples) < MinCalibrationSamples THEN self
    ELSE LET accel_magnitude ==
                 Mean([i \in DOMAIN imu_samples |-> Norm(imu_samples[i].accel)])
             mag_all_zero ==
                 \A i \in DOMAIN imu_samples : imu_samples[i].mag = <<0, 0, 0>>
             mag_scale == [k \in 1..3 |->
                 Div(Max(Axis(imu_samples, "mag", k))
                       - Min(Axis(imu_samples, "mag", k)), 2)]
         IN  [self EXCEPT
                !.gyro_offset = [k \in 1..3 |-> Mean(Axis(imu_samples, "gyro", k))],
                !.accel_offset = [k \in 1..3 |->
                    Mean(Axis(imu_samples, "accel", k))
                      - (IF k = 3 THEN accel_magnitude ELSE 0)],
                !.mag_offset =
                    IF self.use_magnetometer /\ ~mag_all_zero
                    THEN [k \in 1..3 |->
                            Div(Max(Axis(imu_samples, "mag", k))
                                  + Min(Axis(imu_samples, "mag", k)), 2)]
                    ELSE @,
                !.mag_scale =
                    IF self.use_magnetometer /\ ~mag_all_zero
                    THEN [k \in 1..3 |-> IF mag_scale[k] = 0 THEN FP ELSE mag_scale[k]]
                    ELSE @,
                !.is_calibrated = TRUE]

\* process_imu_data: the calibration offsets applied to the sample
calibrated_accel(self, imu_data) ==
    [k \in 1..3 |-> imu_data.accel[k] - self.accel_offset[k]]
calibrated_gyro(self, imu_data) ==
    [k \in 1..3 |-> radians(imu_data.gyro[k] - self.gyro_offset[k])]
calibrated_mag(self, imu_data) ==
    IF self.use_magnetometer /\ imu_data.mag # <<0, 0, 0>>
    THEN Some([k \in 1..3 |->
                 Quot(imu_data.mag[k] - self.mag_offset[k], self.mag_scale[k])])
    ELSE None

\* process_imu_data: the time delta
time_delta(self, current_time) ==
    IF ~self.last_update_time.some THEN self.sample_period
    ELSE IF current_time - self.last_update_time.v > Div(FP, 1000)
         THEN current_time - self.last_update_time.v
         ELSE Div(FP, 1000)

\* process_imu_data: the orientation in degrees, yaw in 0-360
orientation_degrees(euler, quaternion) ==
    LET deg(a) == IF a.nan THEN NaN ELSE Float(degrees(a.x))
        yaw_deg == deg(euler[3])
    IN  Orientation(deg(euler[1]), deg(euler[2]),
                    IF ~yaw_deg.nan /\ yaw_deg.x < 0
                    THEN Float(yaw_deg.x + 360 * FP) ELSE yaw_deg,
                    quaternion)

\* np.linspace(0.5, 1.0, n) divided by its sum
weights(n) ==
    LET w == [i \in 1..n |-> Half + Div((i - 1) * (FP - Half), n - 1)]
    IN  [i \in 1..n |-> Quot(w[i], SumSeq(w))]

\* the weighted sum of floats, NaN when one of them is
WeightedSum(xs, w) ==
    IF \E i \in DOMAIN xs : xs[i].nan THEN NaN
    ELSE Float(SumSeq([i \in DOMAIN xs |-> Mul(xs[i].x, w[i])]))

\* _smooth_orientation: the weighted average over the history
smoothed(history, orientation) ==
    Bind(weights(Len(history)), LAMBDA w :
    LET yaw_sin == WeightedSum([i \in DOMAIN history |->
                      IF history[i].yaw.nan THEN NaN
                      ELSE Float(sin(radians(history[i].yaw.x)))], w)
        yaw_cos == WeightedSum([i \in DOMAIN history |->
                      IF history[i].yaw.nan THEN NaN
                      ELSE Float(cos(radians(history[i].yaw.x)))], w)
        yaw_avg == IF yaw_sin.nan \/ yaw_cos.nan THEN NaN
                   ELSE Float(degrees(arctan2(yaw_sin.x, yaw_cos.x)))
    IN  Orientation(WeightedSum([i \in DOMAIN history |-> history[i].roll], w),
                    WeightedSum([i \in DOMAIN history |-> history[i].pitch], w),
                    IF ~yaw_avg.nan /\ yaw_avg.x < 0
                    THEN Float(yaw_avg.x + 360 * FP) ELSE yaw_avg,
                    orientation.quaternion))

\* a smoothing that appends to the history and always returns the raw value
smooth_orientation_raw(self, orientation) ==
    Bind(Append(self.orientation_history, orientation), LAMBDA appended :
    Bind(IF Len(appended) > self.history_size THEN Tail(appended) ELSE appended,
         LAMBDA history :
            [self |-> [self EXCEPT !.orientation_history = history],
             orientation |-> orientation]))

\* SensorFusion._smooth_orientation: the object and the orientation returned
smooth_orientation(self, orientation) ==
    Bind(Append(self.orientation_history, orientation), LAMBDA appended :
    Bind(IF Len(appended) > self.history_size THEN Tail(appended) ELSE appended,
         LAMBDA history :
            [self |-> [self EXCEPT !.orientation_history = history],
             orientation |-> IF Len(history) < 3 THEN orientation
                             ELSE smoothed(history, orientation)]))

\* SensorFusion.process_imu_data: the object, the orientation returned and
\* the time delta it used
process_imu_data(self, imu_data) ==
    Bind(calibrated_accel(self, imu_data), LAMBDA accel :
    Bind(calibrated_gyro(self, imu_data), LAMBDA gyro :
    Bind(time_delta(self, imu_data.timestamp), LAMBDA dt :
    Bind(Madgwick_update(self.madgwick, gyro, accel, calibrated_mag(self, imu_data)),
         LAMBDA madgwick :
    Bind(smooth_orientation(
            [self EXCEPT !.last_update_time = Some(imu_data.timestamp),
                         !.madgwick = madgwick,
                         !.complementary = Complementary_update(@, accel, gyro, dt)],
            orientation_degrees(get_euler_angles(madgwick), madgwick.quaternion)),
         LAMBDA r : [self |-> r.self, orientation |-> r.orientation, dt |-> dt])))))

\* a reset that keeps the time of the last update
reset_keeping_time(self) ==
    [self EXCEPT !.madgwick.quaternion = IdentityQuaternion,
                 !.complementary.roll = 0,
                 !.complementary.pitch = 0,
                 !.orientation_history = <<>>]

\* SensorFusion.reset
reset(self) ==
    [self EXCEPT !.madgwick.quaternion = IdentityQuaternion,
                 !.complementary.roll = 0,
                 !.complementary.pitch = 0,
                 !.orientation_history = <<>>,
                 !.last_update_time = None]

\* configure_sensor_fusion
configure_sensor_fusion(self, use_magnetometer, madgwick_beta, smoothing_window) ==
    [self EXCEPT !.use_magnetometer = use_magnetometer,
                 !.madgwick.beta = madgwick_beta,
                 !.history_size = smoothing_window]

(***************************************************************************)
(* The callers of the fusion engine, and what a call holds in its frame.   *)
(***************************************************************************)
\* the reader threads of two ports, whose callbacks call process_imu_data,
\* and the event loop, whose reset_sensor_fusion command calls reset
ReaderCallers == {"reader_COM3", "reader_COM4"}
Callers == ReaderCallers \cup {"loop"}

\* a caller that is in no call.  pc is the statement the call is at, op and
\* imu_data (or the number of samples) the call, test the outcome of
\* `self.last_update_time is None`, dt the time delta, q the quaternion
\* MadgwickFilter.update has read, result what the call returned and raised
\* whether it raised.  The rest observes: before is the object when the call
\* began, ticket the number of calls begun before it, during the callers
\* that were in a call then, began the calls this caller has begun.
IdleFrame ==
    [pc |-> "idle", op |-> "none",
     imu_data |-> IMUData(<<0, 0, 0>>, <<0, 0, 0>>, <<0, 0, 0>>, 0), samples |-> 0,
     test |-> FALSE, dt |-> 0, q |-> IdentityQuaternion, result |-> None,
     raised |-> FALSE, before |-> SensorFusion, ticket |-> 0, during |-> {},
     began |-> 0]

(***************************************************************************)
(* SerialManager.__init__: no connection, no reader thread.                *)
(***************************************************************************)
SerialManager ==
    [connections |-> {}, read_threads |-> EmptyDict, stop_reading |-> EmptyDict,
     data_callbacks |-> {}]

(***************************************************************************)
(* serial_operations.py: SerialManager.  A dict is a function on the keys  *)
(* it holds; connections is the set of the ports with an open Serial       *)
(* object.  A reader thread is a record: the port it was started for, the  *)
(* statement it is at, the flag of the Event that was created with it, the *)
(* callbacks it has invoked, and whether close_serial_port has returned    *)
(* after stopping it (observation only).  read_threads[port] and           *)
(* stop_reading[port] hold the index of the thread and of the Event.       *)
(***************************************************************************)
\* the serial devices of the machine: serial.Serial raises SerialException
\* for any other port
DevicePorts == {Port}

\* del d[k]
DictDel(d, k) == [x \in DOMAIN d \ {k} |-> d[x]]

\* threading.Thread(target=self._read_continuously, ...) with its Event
NewThread(port) ==
    [port |-> port, pc |-> "while", stop_set |-> FALSE, callbacks |-> 0,
     closed |-> FALSE]

\* Thread.is_alive
Alive(thread) == thread.pc \in {"while", "body"}

\* close_serial_port up to the join: `self.stop_reading[port].set()`
close_set_stop(sm, ts, port) ==
    IF port \in DOMAIN sm.stop_reading
    THEN [ts EXCEPT ![sm.stop_reading[port]].stop_set = TRUE]
    ELSE ts

\* close_serial_port from the return of the join: the dicts without the port
close_after_join(sm, port) ==
    [connections |-> sm.connections \ {port},
     read_threads |-> IF port \in DOMAIN sm.stop_reading
                      THEN DictDel(sm.read_threads, port) ELSE sm.read_threads,
     stop_reading |-> DictDel(sm.stop_reading, port),
     data_callbacks |-> sm.data_callbacks \ {port}]

\* the reader threads when close_serial_port returns: the thread it joined is
\* marked; it has ended unless the join timed out
close_joined(sm, ts, port, timed_out) ==
    IF port \in DOMAIN sm.stop_reading /\ port \in DOMAIN sm.read_threads
    THEN LET thread == ts[sm.read_threads[port]]
         IN  [ts EXCEPT ![sm.read_threads[port]] =
                [thread EXCEPT !.closed = TRUE,
                               !.pc = IF Alive(thread) /\ ~timed_out
                                      THEN "finished" ELSE @]]
    ELSE ts

\* SerialManager.close_serial_port, as one step: the join returns when the
\* thread has ended or after its timeout
close_serial_port(sm, ts, port, timed_out) ==
    [serial |-> close_after_join(sm, port),
     threads |-> close_joined(sm, close_set_stop(sm, ts, port), port, timed_out),
     ok |-> port \in sm.connections]

\* SerialManager._start_reading_thread
start_reading_thread(sm, ts, port) ==
    IF port \in DOMAIN sm.read_threads THEN [serial |-> sm, threads |-> ts]
    ELSE [serial |-> [sm EXCEPT !.stop_reading = DictSet(@, port, Len(ts) + 1),
                                !.read_threads = DictSet(@, port, Len(ts) + 1)],
          threads |-> Append(ts, NewThread(port))]

\* SerialManager.open_serial_port with a data callback, from the creation of
\* the Serial object
open_after_close(sm, ts, port) ==
    IF port \in DevicePorts
    THEN LET r == start_reading_thread(
                      [sm EXCEPT !.connections = @ \cup {port},
                                 !.data_callbacks = @ \cup {port}], ts, port)
         IN  [serial |-> r.serial, threads |-> r.threads, ok |-> TRUE]
    ELSE [serial |-> sm, threads |-> ts, ok |-> FALSE]

\* SerialManager.open_serial_port with a data callback
open_serial_port(sm, ts, port, timed_out) ==
    IF port \in sm.connections
    THEN LET c == close_serial_port(sm, ts, port, timed_out)
         IN  open_after_close(c.serial, c.threads, port)
    ELSE open_after_close(sm, ts, port)

RECURSIVE close_ports(_, _, _, _, _)
close_ports(sm, ts, ports, timed_out, success) ==
    IF ports = {} THEN [serial |-> sm, threads |-> ts, ok |-> success]
    ELSE LET port == CHOOSE p \in ports : TRUE
             c == close_serial_port(sm, ts, port, timed_out)
         IN  close_ports(c.serial, c.threads, ports \ {port}, timed_out,
                         success /\ c.ok)

\* SerialManager.close_all_ports
close_all_ports(sm, ts, timed_out) ==
    close_ports(sm, ts, sm.connections, timed_out, TRUE)

\* SerialManager.is_port_open, write_serial_port, read_serial_port and
\* read_serial_port_line (no byte is waiting when a command reads), get_port_info
is_port_open(sm, port) == port \in sm.connections
write_serial_port(sm, port) == port \in sm.connections
read_serial_port(sm, port) == IF port \in sm.connections THEN Some("") ELSE None
get_port_info(sm, port) ==
    IF port \in sm.connections THEN Some([port |-> port, is_open |-> TRUE]) ELSE None

(***************************************************************************)
(* websocket_server.py: handle_serial_command.  A message and a response   *)
(* are dicts; st holds the objects the commands work on (the parser        *)
(* manager's attributes, the serial manager, its threads, the fusion       *)
(* engine); timed_out says whether a join the command makes times out.     *)
(***************************************************************************)
\* an error text, with the value formatted into it
ErrorText(text, arg) == [text |-> text, arg |-> arg]

\* serial_manager.list_serial_ports()
list_serial_ports == [p \in DevicePorts |-> [port |-> p, description |-> "N/A"]]

\* parser_manager.get_parser_info()
get_parser_info(st) ==
    [available_parsers |-> [i \in 1..Len(st.parsers) |-> st.parsers[i].format_name],
     active_parser |-> IF st.active_parser.some
                       THEN Some(st.active_parser.v.format_name) ELSE None,
     auto_detect |-> st.auto_detect,
     callback_count |-> Len(st.data_callbacks)]

\* int(k) of a dict key of a JSON object, a string: the number it writes in
\* decimal, or ValueError
DecimalStrings ==
    <<"0", "1", "2", "3", "4", "5", "6", "7", "8", "9", "10", "11", "12", "13",
      "14", "15">>
int(k) ==
    IF \E n \in DOMAIN DecimalStrings : DecimalStrings[n] = k
    THEN Some((CHOOSE n \in DOMAIN DecimalStrings : DecimalStrings[n] = k) - 1)
    ELSE None

\* `{int(k): v for k, v in field_mapping.items()}` when no key raises
int_field_mapping(field_mapping) ==
    [n \in {int(k).v : k \in DOMAIN field_mapping} |->
        field_mapping[CHOOSE k \in DOMAIN field_mapping : int(k).v = n]]

\* the response envelope of a branch
ResponseDict(request_id, command, success, payload) ==
    payload @@ [id |-> request_id, type |-> "response", command |-> command,
                success |-> success]

\* the response of the set_active_parser branch once parser_name is given
set_active_parser_response(request_id, parser_name, success) ==
    ResponseDict(request_id, "set_active_parser", success,
                 [parser_name |-> parser_name])

\* an else branch that accepts the command
unknown_command_accepted(request_id, command) ==
    ResponseDict(request_id, command, TRUE, EmptyDict)

\* the final else branch
unknown_command_response(request_id, command) ==
    ResponseDict(request_id, command, FALSE,
                 [error |-> ErrorText("Unknown command: ", command)])

handle_serial_command(message, st, timed_out) ==
    LET command == DictGet(message, "command", "None")
        request_id == DictGet(message, "id", "unknown")
        port == DictGet(message, "port", "")
        Same(response) == [response |-> response, st |-> st]
        Required(text) ==
            Same(ResponseDict(request_id, command, FALSE,
                              [error |-> ErrorText(text, "")]))
        Serial(r, payload) ==
            [response |-> ResponseDict(request_id, command, r.ok, payload),
             st |-> [st EXCEPT !.serial = r.serial, !.threads = r.threads]]
    IN  CASE command = "list_ports" ->
               Same(ResponseDict(request_id, command, TRUE, [data |-> list_serial_ports]))
          [] command = "open_port" ->
               IF port = "" THEN Required("Port parameter is required")
               ELSE Serial(open_serial_port(st.serial, st.threads, port, timed_out),
                           [port |-> port,
                            baudrate |-> DictGet(message, "baudrate", 9600)])
          [] command = "close_port" ->
               IF port = "" THEN Required("Port parameter is required")
               ELSE Serial(close_serial_port(st.serial, st.threads, port, timed_out),
                           [port |-> port])
          [] command \in {"write_port", "write_port_line"} ->
               IF port = "" \/ "data" \notin DOMAIN message
               THEN Required("Port and data parameters are required")
               ELSE Same(ResponseDict(request_id, command,
                                      write_serial_port(st.serial, port),
                                      [port |-> port, data |-> message["data"]]))
          [] command \in {"read_port", "read_port_line"} ->
               IF port = "" THEN Required("Port parameter is required")
               ELSE Same(ResponseDict(request_id, command,
                                      read_serial_port(st.serial, port).some,
                                      [port |-> port,
                                       data |-> read_serial_port(st.serial, port)]))
          [] command = "is_port_open" ->
               IF port = "" THEN Required("Port parameter is required")
               ELSE Same(ResponseDict(request_id, command, TRUE,
                                      [port |-> port,
                                       is_open |-> is_port_open(st.serial, port)]))
          [] command = "get_port_info" ->
               IF port = "" THEN Required("Port parameter is required")
               ELSE Same(ResponseDict(request_id, command,
                                      get_port_info(st.serial, port).some,
                                      [port |-> port,
                                       info |-> get_port_info(st.serial, port)]))
          [] command = "close_all_ports" ->
               Serial(close_all_ports(st.serial, st.threads, timed_out), EmptyDict)
          [] command = "get_parser_info" ->
               Same(ResponseDict(request_id, command, TRUE,
                                 [data |-> get_parser_info(st)]))
          [] command = "set_active_parser" ->
               IF DictGet(message, "parser_name", "") = ""
               THEN Required("parser_name parameter is required")
               ELSE LET r == set_active_parser(st.parsers, st.active_parser,
                                               st.auto_detect, message["parser_name"])
                    IN  [response |-> set_active_parser_response(
                                          request_id, message["parser_name"], r.ok),
                         st |-> [st EXCEPT !.active_parser = r.active_parser,
                                           !.auto_detect = r.auto_detect]]
          [] command = "enable_auto_detection" ->
               LET r == enable_auto_detection(st.parsers, st.active_parser,
                                              st.auto_detect)
               IN  [response |-> ResponseDict(request_id, command, TRUE, EmptyDict),
                    st |-> [st EXCEPT !.active_parser = r.active_parser,
                                      !.auto_detect = r.auto_detect]]
          [] command = "add_custom_parser" ->
               IF DictGet(message, "delimiter", "") = ""
               THEN Required("delimiter parameter is required")
               ELSE LET parser_name == IF "parser_name" \in DOMAIN message
                                       THEN Some(message["parser_name"]) ELSE None
                    IN  [response |-> ResponseDict(request_id, command, TRUE,
                                          [delimiter |-> message["delimiter"],
                                           field_names |-> DictGet(message, "field_names", <<>>),
                                           parser_name |-> parser_name]),
                         st |-> [st EXCEPT !.parsers =
                                    add_custom_parser(@, message["delimiter"],
                                                      parser_name)]]
          [] command = "configure_sentinel_parser" ->
               LET field_mapping == DictGet(message, "field_mapping", EmptyDict)
                   invalid == {k \in DOMAIN field_mapping : ~int(k).some}
               IN  IF invalid # {}
                   THEN Same(ResponseDict(request_id, command, FALSE,
                            [error |-> ErrorText("invalid literal for int() with base 10: ",
                                                 CHOOSE k \in invalid : TRUE)]))
                   ELSE LET configured == configure_sentinel_parser(
                                              st.parsers, int_field_mapping(field_mapping))
                        IN  [response |-> ResponseDict(request_id, command, TRUE,
                                 [field_mapping |-> int_field_mapping(field_mapping)]),
                             st |-> [st EXCEPT
                                 !.parsers = configured,
                                 !.active_parser =
                                     SameObject(st.parsers, configured, @)]]
          [] command = "configure_sensor_fusion" ->
               [response |-> ResponseDict(request_id, command, TRUE,
                                [message |-> "Sensor fusion configured successfully"]),
                st |-> [st EXCEPT !.fusion = configure_sensor_fusion(@,
                            DictGet(message, "use_magnetometer", TRUE),
                            DictGet(message, "madgwick_beta", Div(FP, 10)),
                            DictGet(message, "smoothing_window", 5))]]
          [] command = "reset_sensor_fusion" ->
               [response |-> ResponseDict(request_id, command, TRUE,
                                [message |-> "Sensor fusion reset successfully"]),
                st |-> [st EXCEPT !.fusion = reset(@)]]
          [] OTHER -> Same(unknown_command_response(request_id, command))

(***************************************************************************)
(* Init: the server has started and no client is connected.  `reader` is   *)
(* the reader thread of a port that is open from the start; `serial` and   *)
(* `threads` hold the ports the commands of the clients open and the       *)
(* reader threads started for them.                                        *)
(***************************************************************************)
Init ==
    /\ parsers = DefaultParsers
    /\ active_parser = None
    /\ auto_detect = TRUE
    /\ connections = {}
    /\ sockets = [w \in WS |-> "new"]
    /\ wire = [w \in WS |-> <<>>]
    /\ tasks = <<>>
    /\ records = <<>>
    /\ reader = [pc |-> "idle", ref |-> 0]
    /\ readLog = <<>>
    /\ lastEnded = NoBroadcast
    /\ fusion = SensorFusion
    /\ frames = [c \in Callers |-> IdleFrame]
    /\ serial = SerialManager
    /\ threads = <<>>
    /\ data_callbacks = <<"data_callback_for_broadcast">>
    /\ parseLog = <<>>
    /\ inbox = [w \in WS |-> <<>>]

(***************************************************************************)
(* The reader thread (SerialManager._read_continuously).                   *)
(***************************************************************************)
\* the line being processed and its number
CurLine == readLog[Len(readLog)]
CurN == Len(readLog)

\* One pass of the loop up to the first broadcast: a line is waiting, it is
\* read, and if it is not empty serial_data_callback schedules its console
\* message.
ReadLine(line) ==
    /\ reader.pc = "idle"
    /\ Len(readLog) < MaxLines
    /\ readLog' = Append(readLog, line)
    /\ IF CallbackInvoked(line)
       THEN /\ tasks' = tasks \o serial_data_callback_console(Port, line, Len(readLog) + 1)
            /\ reader' = [pc |-> "parse", ref |-> 0]
       ELSE UNCHANGED <<tasks, reader>>
    /\ UNCHANGED extVars
    /\ UNCHANGED <<parserVars, connections, sockets, wire, records, lastEnded>>

\* process_serial_data up to the return of parse_data: the line is parsed and,
\* if there is a record, the registered callback schedules its telemetry message
ProcessSerialData ==
    /\ reader.pc = "parse"
    /\ ThreadMayProceed(tasks)
    /\ \E parsed \in {parse_data(parsers, active_parser, auto_detect, CurLine)} :
           IF Truthy(parsed)
           THEN /\ records' = Append(records, parsed.v)
                /\ tasks' = tasks \o
                       data_callback_for_broadcast(parsed, Len(records) + 1, CurN)
                /\ reader' = [pc |-> "annotate", ref |-> Len(records) + 1]
           ELSE /\ reader' = [pc |-> "idle", ref |-> 0]
                /\ UNCHANGED <<records, tasks>>
    /\ UNCHANGED extVars
    /\ UNCHANGED <<parserVars, connections, sockets, wire, readLog, lastEnded>>

\* the rest of process_serial_data: parsed_data["_source_port"] = port
AnnotateSourcePort ==
    /\ reader.pc = "annotate"
    /\ ThreadMayProceed(tasks)
    /\ records' = [records EXCEPT ![reader.ref] = DictSet(@, "_source_port", Port)]
    /\ reader' = [pc |-> "idle", ref |-> 0]
    /\ UNCHANGED extVars
    /\ UNCHANGED <<parserVars, hubVars, readLog>>

ReaderStep == (\E line \in Lines : ReadLine(line)) \/ ProcessSerialData \/ AnnotateSourcePort

(***************************************************************************)
(* The event loop.                                                         *)
(***************************************************************************)
\* websocket_endpoint up to its first receive: accept, then connections.add
Connect(w) ==
    /\ sockets[w] = "new"
    /\ sockets' = [sockets EXCEPT ![w] = "open"]
    /\ connections' = connections \cup {w}
    /\ UNCHANGED extVars
    /\ UNCHANGED <<parserVars, wire, tasks, readerVars, lastEnded>>

\* the client goes away: from now on send_text raises and receive_text will
\* raise WebSocketDisconnect
PeerDrop(w) ==
    /\ sockets[w] = "open"
    /\ sockets' = [sockets EXCEPT ![w] = "dropped"]
    /\ UNCHANGED extVars
    /\ UNCHANGED <<parserVars, connections, wire, tasks, readerVars, lastEnded>>

\* websocket_endpoint: receive_text raises, the handler calls disconnect and
\* the coroutine ends ("failed" if disconnect raised out of the handler)
EndpointDisconnect(w) ==
    /\ sockets[w] = "dropped"
    /\ LET r == disconnect(connections, w)
       IN  /\ connections' = r.conns
           /\ sockets' = [sockets EXCEPT ![w] = IF r.raised THEN "failed" ELSE "closed"]
    /\ UNCHANGED extVars
    /\ UNCHANGED <<parserVars, wire, tasks, readerVars, lastEnded>>

\* what the loop does with broadcast task t once RunLoop has brought it to `nt`
Settle(t, nt) ==
    CASE nt.pc = "awaiting" ->
            /\ wire' = [wire EXCEPT ![nt.cur] = Append(@, Serialise(nt.msg, records))]
            /\ tasks' = [tasks EXCEPT ![t] = nt]
            /\ UNCHANGED <<connections, lastEnded>>
      [] nt.pc = "cleanup" ->
            LET r == RemoveDisconnected(connections, nt.disconnected)
                pc == IF r.raised THEN "crashed" ELSE "done"
            IN  /\ connections' = r.conns
                /\ tasks' = [tasks EXCEPT ![t] = Ended(nt, pc)]
                /\ lastEnded' = Observe(nt, connections, pc)
                /\ UNCHANGED wire
      [] OTHER ->
            /\ tasks' = [tasks EXCEPT ![t] = Ended(nt, "crashed")]
            /\ lastEnded' = Observe(nt, connections, "crashed")
            /\ UNCHANGED <<connections, wire>>

\* the loop starts the oldest coroutine that has not run yet and runs it to
\* its first suspension (`if self.connections:` is false: it ends at once).
\* The loop is one thread: it runs a coroutine only when the handler it is in
\* has returned or awaits
StartBroadcast(t) ==
    /\ frames["loop"].pc = "idle"
    /\ t \in 1..Len(tasks)
    /\ tasks[t].pc = "queued"
    /\ \A u \in 1..(t - 1) : tasks[u].pc # "queued"
    /\ IF connections = {}
       THEN /\ tasks' = [tasks EXCEPT ![t] = Ended(@, "done")]
            /\ lastEnded' = Observe(tasks[t], connections, "done")
            /\ UNCHANGED <<connections, wire>>
       ELSE Settle(t, RunLoop([tasks[t] EXCEPT !.used = Cardinality(connections),
                                               !.start = connections],
                              connections, sockets))
    /\ UNCHANGED extVars
    /\ UNCHANGED <<parserVars, sockets, readerVars>>

\* a pending send_text returns and the coroutine runs to its next suspension
ResumeBroadcast(t) ==
    /\ frames["loop"].pc = "idle"
    /\ t \in 1..Len(tasks)
    /\ tasks[t].pc = "awaiting"
    /\ Settle(t, RunLoop(tasks[t], connections, sockets))
    /\ UNCHANGED extVars
    /\ UNCHANGED <<parserVars, sockets, readerVars>>

(***************************************************************************)
(* Parser commands of a client: websocket_endpoint receives the message,   *)
(* handle_serial_command runs the command and send_to_client sends the     *)
(* response.                                                               *)
(***************************************************************************)
response(command, success) ==
    [type |-> "response", port |-> "", n |-> 0,
     data |-> [command |-> command, success |-> success]]

\* parser_name values the clients send
ParserNames == {Armed_format_name, JSON_format_name, "UNKNOWN"}

\* the commands of the client that have been answered
CommandsHandled(w) ==
    Cardinality({i \in 1..Len(wire[w]) : wire[w][i].type = "response"})

SetActiveParser(w, parser_name) ==
    /\ sockets[w] = "open"
    /\ CommandsHandled(w) < MaxCommands
    /\ LET r == set_active_parser(parsers, active_parser, auto_detect, parser_name)
       IN  /\ active_parser' = r.active_parser
           /\ auto_detect' = r.auto_detect
           /\ wire' = [wire EXCEPT ![w] = Append(@, response("set_active_parser", r.ok))]
    /\ UNCHANGED extVars
    /\ UNCHANGED <<parsers, connections, sockets, tasks, readerVars, lastEnded>>

EnableAutoDetection(w) ==
    /\ sockets[w] = "open"
    /\ CommandsHandled(w) < MaxCommands
    /\ LET r == enable_auto_detection(parsers, active_parser, auto_detect)
       IN  /\ active_parser' = r.active_parser
           /\ auto_detect' = r.auto_detect
    /\ wire' = [wire EXCEPT ![w] = Append(@, response("enable_auto_detection", TRUE))]
    /\ UNCHANGED extVars
    /\ UNCHANGED <<parsers, connections, sockets, tasks, readerVars, lastEnded>>

AddCustomParser(w, delimiter, parser_name) ==
    /\ sockets[w] = "open"
    /\ CommandsHandled(w) < MaxCommands
    /\ Len(parsers) < Len(DefaultParsers) + MaxCustom
    /\ parsers' = add_custom_parser(parsers, delimiter, parser_name)
    /\ wire' = [wire EXCEPT ![w] = Append(@, response("add_custom_parser", TRUE))]
    /\ UNCHANGED extVars
    /\ UNCHANGED <<active_parser, auto_detect, connections, sockets, tasks,
                   readerVars, lastEnded>>

(***************************************************************************)
(* parse_data and the two mode commands statement by statement, as they    *)
(* interleave when the reader thread and the event loop thread run them    *)
(* at the same time (the interpreter may switch threads between any two    *)
(* attribute accesses).                                                    *)
(***************************************************************************)
\* the end of parse_data and process_serial_data for a given result
ParseDataResult(parsed) ==
    IF Truthy(parsed)
    THEN /\ records' = Append(records, parsed.v)
         /\ tasks' = tasks \o data_callback_for_broadcast(parsed, Len(records) + 1, CurN)
         /\ reader' = [pc |-> "annotate", ref |-> Len(records) + 1]
    ELSE /\ reader' = [pc |-> "idle", ref |-> 0]
         /\ UNCHANGED <<records, tasks>>

\* `if self.auto_detect:` and, when it is true, the loop over the decoders
ParseReadAutoDetect ==
    /\ reader.pc = "parse"
    /\ IF IsBlank(CurLine) THEN ParseDataResult(None)
       ELSE IF auto_detect
       THEN \E parsed \in {AutoDetect(parsers, CurLine)} : ParseDataResult(parsed)
       ELSE /\ reader' = [pc |-> "if_active_parser", ref |-> 0]
            /\ UNCHANGED <<records, tasks>>
    /\ UNCHANGED extVars
    /\ UNCHANGED <<parserVars, connections, sockets, wire, readLog, lastEnded>>

\* `if self.active_parser:` nothing is parsed when it is None
ParseTestActiveParser ==
    /\ reader.pc = "if_active_parser"
    /\ IF active_parser.some
       THEN /\ reader' = [pc |-> "active_parser_parse", ref |-> 0]
            /\ UNCHANGED <<records, tasks>>
       ELSE ParseDataResult(None)
    /\ UNCHANGED extVars
    /\ UNCHANGED <<parserVars, connections, sockets, wire, readLog, lastEnded>>

\* `parsed_data = self.active_parser.parse(raw_data)`: the attribute is read
\* again; on None the AttributeError leaves parse_data and process_serial_data
\* returns None from its except clause
ParseCallActiveParser ==
    /\ reader.pc = "active_parser_parse"
    /\ IF active_parser.some
       THEN \E parsed \in {parse(active_parser.v, CurLine)} : ParseDataResult(parsed)
       ELSE ParseDataResult(None)
    /\ UNCHANGED extVars
    /\ UNCHANGED <<parserVars, connections, sockets, wire, readLog, lastEnded>>

\* set_active_parser up to `self.active_parser = parser` (the whole command
\* when no decoder has the name)
SetActiveParserBegin(w, parser_name) ==
    /\ sockets[w] = "open"
    /\ CommandsHandled(w) < MaxCommands
    /\ LET r == set_active_parser(parsers, active_parser, auto_detect, parser_name)
       IN  IF r.ok
           THEN /\ active_parser' = r.active_parser
                /\ sockets' = [sockets EXCEPT ![w] = "in_set_active_parser"]
                /\ UNCHANGED wire
           ELSE /\ wire' = [wire EXCEPT
                              ![w] = Append(@, response("set_active_parser", FALSE))]
                /\ UNCHANGED <<active_parser, sockets>>
    /\ UNCHANGED extVars
    /\ UNCHANGED <<parsers, auto_detect, connections, tasks, readerVars, lastEnded>>

\* `self.auto_detect = False`, return True, and the response
SetActiveParserEnd(w) ==
    /\ sockets[w] = "in_set_active_parser"
    /\ auto_detect' = FALSE
    /\ sockets' = [sockets EXCEPT ![w] = "open"]
    /\ wire' = [wire EXCEPT ![w] = Append(@, response("set_active_parser", TRUE))]
    /\ UNCHANGED extVars
    /\ UNCHANGED <<parsers, active_parser, connections, tasks, readerVars, lastEnded>>

\* enable_auto_detection up to `self.auto_detect = True`
EnableAutoDetectionBegin(w) ==
    /\ sockets[w] = "open"
    /\ CommandsHandled(w) < MaxCommands
    /\ auto_detect' = TRUE
    /\ sockets' = [sockets EXCEPT ![w] = "in_enable_auto_detection"]
    /\ UNCHANGED extVars
    /\ UNCHANGED <<parsers, active_parser, connections, wire, tasks, readerVars,
                   lastEnded>>

\* `self.active_parser = None`, and the response
EnableAutoDetectionEnd(w) ==
    /\ sockets[w] = "in_enable_auto_detection"
    /\ active_parser' = None
    /\ sockets' = [sockets EXCEPT ![w] = "open"]
    /\ wire' = [wire EXCEPT ![w] = Append(@, response("enable_auto_detection", TRUE))]
    /\ UNCHANGED extVars
    /\ UNCHANGED <<parsers, auto_detect, connections, tasks, readerVars, lastEnded>>

(***************************************************************************)
(* A command of a client, whatever it is: websocket_endpoint receives the  *)
(* message, handle_serial_command returns the response and send_to_client  *)
(* sends it.  Nothing is awaited in between: the step is one step of the   *)
(* event loop.                                                             *)
(***************************************************************************)
\* the objects the commands work on
HandlerState ==
    [parsers |-> parsers, active_parser |-> active_parser, auto_detect |-> auto_detect,
     serial |-> serial, threads |-> threads, fusion |-> fusion,
     data_callbacks |-> data_callbacks]

\* no call of the fusion engine is in progress
AllIdle == \A c \in Callers : frames[c].pc = "idle"

HandleCommand(w, message, timed_out) ==
    /\ sockets[w] = "open"
    /\ CommandsHandled(w) < MaxCommands
    /\ AllIdle
    /\ DictGet(message, "command", "None") = "add_custom_parser"
          => Len(parsers) < Len(DefaultParsers) + MaxCustom
    /\ \E r \in {handle_serial_command(message, HandlerState, timed_out)} :
          /\ parsers' = r.st.parsers
          /\ active_parser' = r.st.active_parser
          /\ auto_detect' = r.st.auto_detect
          /\ serial' = r.st.serial
          /\ threads' = r.st.threads
          /\ fusion' = r.st.fusion
          /\ wire' = [wire EXCEPT ![w] = Append(@, [type |-> "response", port |-> "",
                                                    n |-> 0, data |-> r.response])]
    /\ inbox' = [inbox EXCEPT ![w] = Append(@, message)]
    /\ UNCHANGED <<connections, sockets, tasks, readerVars, lastEnded, frames,
                   callbackVars>>

(***************************************************************************)
(* The fusion engine, call by call.                                        *)
(***************************************************************************)
\* the calls of the engine begun so far
TotalBegan ==
    frames["reader_COM3"].began + frames["reader_COM4"].began + frames["loop"].began

\* the frame of a call of caller c that begins now
BeginFrame(c, op, imu_data, samples) ==
    [IdleFrame EXCEPT !.pc = frames[c].pc, !.op = op, !.imu_data = imu_data,
                      !.samples = samples, !.before = fusion, !.ticket = TotalBegan,
                      !.during = {d \in Callers : frames[d].pc # "idle"},
                      !.began = frames[c].began + 1]

\* a reader thread calls sensor_fusion.process_imu_data and the call returns
ProcessImuData(c, imu_data) ==
    /\ AllIdle
    /\ TotalBegan < MaxCalls
    /\ \E r \in {process_imu_data(fusion, imu_data)} :
          /\ fusion' = r.self
          /\ frames' = [frames EXCEPT ![c] =
                [BeginFrame(c, "process_imu_data", imu_data, 0) EXCEPT
                    !.dt = r.dt, !.result = Some(r.orientation)]]
    /\ UNCHANGED <<parserVars, hubVars, readerVars, serialVars, callbackVars, inbox>>

\* sensor_fusion.calibrate(imu_samples), with n copies of a sample, is called
\* and returns
Calibrate(c, imu_data, n) ==
    /\ AllIdle
    /\ TotalBegan < MaxCalls
    /\ fusion' = calibrate(fusion, [i \in 1..n |-> imu_data])
    /\ frames' = [frames EXCEPT ![c] = BeginFrame(c, "calibrate", imu_data, n)]
    /\ UNCHANGED <<parserVars, hubVars, readerVars, serialVars, callbackVars, inbox>>

(***************************************************************************)
(* process_imu_data and reset statement by statement, as they interleave   *)
(* when reader threads and the event loop thread run them at the same time *)
(* (no lock guards the SensorFusion object; the interpreter may switch     *)
(* threads between any two attribute accesses).                            *)
(***************************************************************************)
ImuFrame == <<parserVars, hubVars, readerVars, serialVars, callbackVars, inbox>>

\* the call begins: the calibration offsets are applied to the sample
ImuBegin(c, imu_data) ==
    /\ frames[c].pc = "idle"
    /\ TotalBegan < MaxCalls
    /\ frames' = [frames EXCEPT ![c] =
          [BeginFrame(c, "process_imu_data", imu_data, 0) EXCEPT
              !.pc = "if_last_update_time"]]
    /\ UNCHANGED <<fusion, ImuFrame>>

\* `if self.last_update_time is None:`
ImuTestLastUpdateTime(c) ==
    /\ frames[c].pc = "if_last_update_time"
    /\ frames' = [frames EXCEPT ![c].test = ~fusion.last_update_time.some,
                                ![c].pc = "dt"]
    /\ UNCHANGED <<fusion, ImuFrame>>

\* `dt = self.sample_period` or `dt = current_time - self.last_update_time`,
\* which reads the attribute again and raises TypeError when it is None by
\* now; then `self.last_update_time = current_time`
ImuTimeDelta(c) ==
    /\ frames[c].pc = "dt"
    /\ IF ~frames[c].test /\ ~fusion.last_update_time.some
       THEN /\ frames' = [frames EXCEPT ![c].pc = "idle", ![c].raised = TRUE]
            /\ UNCHANGED fusion
       ELSE /\ frames' = [frames EXCEPT
                  ![c].dt = IF frames[c].test THEN fusion.sample_period
                            ELSE time_delta(fusion, frames[c].imu_data.timestamp),
                  ![c].pc = "update_read"]
            /\ fusion' = [fusion EXCEPT
                  !.last_update_time = Some(frames[c].imu_data.timestamp)]
    /\ UNCHANGED ImuFrame

\* MadgwickFilter.update: `q = self.quaternion`
ImuUpdateRead(c) ==
    /\ frames[c].pc = "update_read"
    /\ frames' = [frames EXCEPT ![c].q = fusion.madgwick.quaternion,
                                ![c].pc = "update_write"]
    /\ UNCHANGED <<fusion, ImuFrame>>

\* MadgwickFilter.update from q to `self.quaternion = q / np.linalg.norm(q)`
\* (nothing is written when the accelerometer vector is zero)
ImuUpdateWrite(c) ==
    /\ frames[c].pc = "update_write"
    /\ LET accel == calibrated_accel(fusion, frames[c].imu_data)
       IN  IF Norm(accel) = 0 THEN UNCHANGED fusion
           ELSE fusion' = [fusion EXCEPT !.madgwick.quaternion =
                   Madgwick_update([fusion.madgwick EXCEPT !.quaternion = frames[c].q],
                                   calibrated_gyro(fusion, frames[c].imu_data), accel,
                                   calibrated_mag(fusion, frames[c].imu_data)).quaternion]
    /\ frames' = [frames EXCEPT ![c].pc = "euler"]
    /\ UNCHANGED ImuFrame

\* get_euler_angles, the complementary filter and the Orientation object
ImuOrientation(c) ==
    /\ frames[c].pc = "euler"
    /\ fusion' = [fusion EXCEPT !.complementary =
          Complementary_update(@, calibrated_accel(fusion, frames[c].imu_data),
                               calibrated_gyro(fusion, frames[c].imu_data),
                               frames[c].dt)]
    /\ frames' = [frames EXCEPT
          ![c].result = Some(orientation_degrees(get_euler_angles(fusion.madgwick),
                                                 fusion.madgwick.quaternion)),
          ![c].pc = "smooth"]
    /\ UNCHANGED ImuFrame

\* _smooth_orientation and the return
ImuSmooth(c) ==
    /\ frames[c].pc = "smooth"
    /\ \E r \in {smooth_orientation(fusion, frames[c].result.v)} :
          /\ fusion' = r.self
          /\ frames' = [frames EXCEPT ![c].result = Some(r.orientation),
                                      ![c].pc = "idle"]
    /\ UNCHANGED ImuFrame

\* the reset_sensor_fusion command arrives and reset begins:
\* `self.madgwick.quaternion = np.array([1.0, 0.0, 0.0, 0.0])`
ResetQuaternion(w, message) ==
    /\ sockets[w] = "open"
    /\ CommandsHandled(w) < MaxCommands
    /\ frames["loop"].pc = "idle"
    /\ TotalBegan < MaxCalls
    /\ fusion' = [fusion EXCEPT !.madgwick.quaternion = IdentityQuaternion]
    /\ frames' = [frames EXCEPT !["loop"] =
          [BeginFrame("loop", "reset", IdleFrame.imu_data, 0) EXCEPT
              !.pc = "reset_history"]]
    /\ sockets' = [sockets EXCEPT ![w] = "in_reset_sensor_fusion"]
    /\ inbox' = [inbox EXCEPT ![w] = Append(@, message)]
    /\ UNCHANGED <<parserVars, connections, wire, tasks, lastEnded, readerVars,
                   serialVars, callbackVars>>

\* the complementary filter is reset and `self.orientation_history.clear()`
ResetHistory(w) ==
    /\ sockets[w] = "in_reset_sensor_fusion"
    /\ frames["loop"].pc = "reset_history"
    /\ fusion' = [fusion EXCEPT !.complementary.roll = 0, !.complementary.pitch = 0,
                                !.orientation_history = <<>>]
    /\ frames' = [frames EXCEPT !["loop"].pc = "reset_last_update_time"]
    /\ UNCHANGED ImuFrame

\* `self.last_update_time = None`, the return and the response
ResetLastUpdateTime(w) ==
    /\ sockets[w] = "in_reset_sensor_fusion"
    /\ frames["loop"].pc = "reset_last_update_time"
    /\ fusion' = [fusion EXCEPT !.last_update_time = None]
    /\ frames' = [frames EXCEPT !["loop"].pc = "idle"]
    /\ sockets' = [sockets EXCEPT ![w] = "open"]
    /\ wire' = [wire EXCEPT ![w] = Append(@,
          [type |-> "response", port |-> "", n |-> 0,
           data |-> ResponseDict(DictGet(inbox[w][Len(inbox[w])], "id", "unknown"),
                                 "reset_sensor_fusion", TRUE,
                                 [message |-> "Sensor fusion reset successfully"])])]
    /\ UNCHANGED <<parserVars, connections, tasks, lastEnded, readerVars, serialVars,
                   callbackVars, inbox>>

(***************************************************************************)
(* The callback list of the parser manager.  A callback is a callable that *)
(* reads the record it is given and returns or raises.                     *)
(***************************************************************************)
\* the callables registered in this model: the one of the hub, one that
\* returns and one that raises an Exception
Callbacks == {"data_callback_for_broadcast", "returning_callback", "raising_callback"}
Raises(callback) == callback = "raising_callback"

\* one call of a callback
Invocation(callback, parsed_data) ==
    [callback |-> callback, arg |-> parsed_data, raised |-> Raises(callback)]

\* the loop without its try: the first callback that raises ends it
RECURSIVE run_callbacks_until_raise(_, _)
run_callbacks_until_raise(callbacks, parsed_data) ==
    IF callbacks = <<>> THEN <<>>
    ELSE IF Raises(Head(callbacks))
    THEN <<Invocation(Head(callbacks), parsed_data)>>
    ELSE <<Invocation(Head(callbacks), parsed_data)>>
           \o run_callbacks_until_raise(Tail(callbacks), parsed_data)

\* `for callback in self.data_callbacks: try: callback(parsed_data) except
\* Exception: ...`: the calls made, in order
RECURSIVE run_callbacks(_, _)
run_callbacks(callbacks, parsed_data) ==
    IF callbacks = <<>> THEN <<>>
    ELSE <<Invocation(Head(callbacks), parsed_data)>>
           \o run_callbacks(Tail(callbacks), parsed_data)

\* DataParserManager.parse_data with its callbacks: what it returns and the
\* calls it makes
parse_data_and_callbacks(ps, active, auto, callbacks, line) ==
    LET parsed_data == parse_data(ps, active, auto, line)
    IN  [returned |-> parsed_data,
         invoked |-> IF Truthy(parsed_data)
                     THEN run_callbacks(callbacks, parsed_data.v) ELSE <<>>]

\* DataParserManager.add_data_callback
AddDataCallback(callback) ==
    /\ Len(data_callbacks) < MaxCallbacks
    /\ data_callbacks' = Append(data_callbacks, callback)
    /\ UNCHANGED <<parserVars, hubVars, readerVars, fusionVars, serialVars, parseLog,
                   inbox>>

\* the messages the calls of data_callback_for_broadcast schedule
RECURSIVE ScheduledBy(_, _, _)
ScheduledBy(invoked, ref, n) ==
    IF invoked = <<>> THEN <<>>
    ELSE (IF Head(invoked).callback = "data_callback_for_broadcast"
          THEN data_callback_for_broadcast(Some(Head(invoked).arg), ref, n)
          ELSE <<>>) \o ScheduledBy(Tail(invoked), ref, n)

\* parse_data(line) is called and returns
ParseData(line) ==
    /\ Len(parseLog) < MaxLines
    /\ \E r \in {parse_data_and_callbacks(parsers, active_parser, auto_detect,
                                           data_callbacks, line)} :
          /\ parseLog' = Append(parseLog, [line |-> line, callbacks |-> data_callbacks,
                                           returned |-> r.returned,
                                           invoked |-> r.invoked])
          /\ tasks' = tasks \o ScheduledBy(r.invoked, Len(records) + 1,
                                           Len(parseLog) + 1)
          /\ records' = IF Truthy(r.returned) THEN Append(records, r.returned.v)
                        ELSE records
    /\ UNCHANGED <<parserVars, connections, sockets, wire, lastEnded, readLog, reader,
                   fusionVars, serialVars, data_callbacks, inbox>>

(***************************************************************************)
(* SerialManager._read_continuously, one thread per _start_reading_thread  *)
(* call, statement by statement: the test of the while loop, which is      *)
(* outside the try, and the body of the loop.                              *)
(***************************************************************************)
\* `while not self.stop_reading[port].is_set():` the dict is read again each
\* time round: a KeyError ends the thread, the Event found there, set, ends the
\* loop
ThreadTest(i) ==
    /\ i \in DOMAIN threads
    /\ threads[i].pc = "while"
    /\ threads' = [threads EXCEPT ![i].pc =
          IF threads[i].port \notin DOMAIN serial.stop_reading THEN "crashed"
          ELSE IF threads[serial.stop_reading[threads[i].port]].stop_set
          THEN "finished" ELSE "body"]
    /\ UNCHANGED <<parserVars, hubVars, readerVars, fusionVars, serial, callbackVars,
                   inbox>>

\* the body of the loop when no byte is waiting or the port is not open:
\* time.sleep(0.01)
ThreadSleep(i) ==
    /\ i \in DOMAIN threads
    /\ threads[i].pc = "body"
    /\ threads' = [threads EXCEPT ![i].pc = "while"]
    /\ UNCHANGED <<parserVars, hubVars, readerVars, fusionVars, serial, callbackVars,
                   inbox>>

\* the body of the loop when a line is waiting: read_serial_port_line, then
\* `if data and port in self.data_callbacks:` the callback of the port, which
\* is serial_data_callback: the console message, process_serial_data and the
\* telemetry message of the record
ThreadRead(i, line) ==
    /\ i \in DOMAIN threads
    /\ threads[i].pc = "body"
    /\ threads[i].port \in serial.connections
    /\ Len(readLog) < MaxLines
    /\ readLog' = Append(readLog, line)
    /\ IF CallbackInvoked(line) /\ threads[i].port \in serial.data_callbacks
       THEN \E parsed \in {parse_data(parsers, active_parser, auto_detect, line)} :
               /\ threads' = [threads EXCEPT ![i].pc = "while",
                                             ![i].callbacks = @ + 1]
               /\ tasks' = tasks
                     \o serial_data_callback_console(threads[i].port, line,
                                                     Len(readLog) + 1)
                     \o data_callback_for_broadcast(parsed, Len(records) + 1,
                                                    Len(readLog) + 1)
               /\ records' = IF Truthy(parsed)
                             THEN Append(records,
                                         DictSet(parsed.v, "_source_port",
                                                 threads[i].port))
                             ELSE records
       ELSE /\ threads' = [threads EXCEPT ![i].pc = "while"]
            /\ UNCHANGED <<tasks, records>>
    /\ UNCHANGED <<parserVars, connections, sockets, wire, lastEnded, reader,
                   fusionVars, serial, callbackVars, inbox>>

(***************************************************************************)
(* Specifications.  The actions are the same in all of them; they differ   *)
(* in the clients that connect and in the lines the port delivers, which   *)
(* keeps each state space small enough to search completely.               *)
(*   Spec          one client, which may go away; every kind of line       *)
(*   SpecOrder     two clients that stay; lines with and without a record  *)
(*   SpecFailure   two clients that may go away; lines without a record    *)
(*   SpecParser    one client that sends parser commands; no broadcast runs *)
(*   SpecArmed     ARMED lines of every kind; no client                    *)
(*   SpecRace      as SpecParser, with parse_data and the mode commands    *)
(*                 statement by statement; ARMED lines only                *)
(*   SpecFusion, SpecCalibration, SpecFusionRace   the fusion engine: call *)
(*                 by call, with calibration, and statement by statement   *)
(*   SpecCommands  one client that sends every kind of command message     *)
(*   SpecCallbacks the callback list of the parser manager                 *)
(*   SpecSerial    two clients that open and close the port; reader        *)
(*                 threads statement by statement                          *)
(*   SpecNmea      NMEA sentences; no client                               *)
(*   SpecLoop      one client; close_port and read_port_line from the call *)
(*                 of the serial manager to its return, with broadcasts    *)
(*   SpecReadError as SpecSerial, with reader threads that meet an error   *)
(***************************************************************************)
Next ==
    \/ \E line \in Lines : ReadLine(line)
    \/ ProcessSerialData
    \/ AnnotateSourcePort
    \/ \E w \in {WSOrder[1]} : Connect(w)
    \/ \E w \in {WSOrder[1]} : PeerDrop(w)
    \/ \E w \in {WSOrder[1]} : EndpointDisconnect(w)
    \/ \E t \in 1..Len(tasks) : StartBroadcast(t)
    \/ \E t \in 1..Len(tasks) : ResumeBroadcast(t)

Spec == Init /\ [][Next]_vars

NextOrder ==
    \/ \E line \in {GarbageLine, ArmedLine} : ReadLine(line)
    \/ ProcessSerialData
    \/ AnnotateSourcePort
    \/ \E w \in WS : Connect(w)
    \/ \E t \in 1..Len(tasks) : StartBroadcast(t)
    \/ \E t \in 1..Len(tasks) : ResumeBroadcast(t)

SpecOrder == Init /\ [][NextOrder]_vars

NextFailure ==
    \/ \E line \in {GarbageLine} : ReadLine(line)
    \/ ProcessSerialData
    \/ \E w \in WS : Connect(w)
    \/ \E w \in WS : PeerDrop(w)
    \/ \E w \in WS : EndpointDisconnect(w)
    \/ \E t \in 1..Len(tasks) : StartBroadcast(t)
    \/ \E t \in 1..Len(tasks) : ResumeBroadcast(t)

SpecFailure == Init /\ [][NextFailure]_vars

ParserLines == {ArmedLine, ArmedHugeLine, JsonLine, JsonWideLine, JsonStringLine}

NextParser ==
    \/ \E line \in ParserLines : ReadLine(line)
    \/ ProcessSerialData
    \/ AnnotateSourcePort
    \/ \E w \in {WSOrder[1]} : Connect(w)
    \/ \E w \in {WSOrder[1]} : \E name \in ParserNames : SetActiveParser(w, name)
    \/ \E w \in {WSOrder[1]} : EnableAutoDetection(w)
    \/ \E w \in {WSOrder[1]} : AddCustomParser(w, ",", None)

SpecParser == Init /\ [][NextParser]_vars

ArmedLines == ArmedGpsLines \cup {ArmedLine, ArmedBadFieldLine, ArmedHugeLine}

NextArmed ==
    \/ \E line \in ArmedLines : ReadLine(line)
    \/ ProcessSerialData
    \/ AnnotateSourcePort

SpecArmed == Init /\ [][NextArmed]_vars

NextRace ==
    \/ \E line \in {ArmedLine} : ReadLine(line)
    \/ ParseReadAutoDetect
    \/ ParseTestActiveParser
    \/ ParseCallActiveParser
    \/ AnnotateSourcePort
    \/ \E w \in {WSOrder[1]} : Connect(w)
    \/ \E w \in {WSOrder[1]} : SetActiveParserBegin(w, Armed_format_name)
    \/ \E w \in {WSOrder[1]} : SetActiveParserEnd(w)
    \/ \E w \in {WSOrder[1]} : EnableAutoDetectionBegin(w)
    \/ \E w \in {WSOrder[1]} : EnableAutoDetectionEnd(w)
    \/ \E w \in {WSOrder[1]} : AddCustomParser(w, ",", None)

SpecRace == Init /\ [][NextRace]_vars

(***************************************************************************)
(* Specifications of the fusion engine.                                    *)
(*   SpecFusion       samples of every kind, reset and a smaller window    *)
(*   SpecCalibration  calibrations with too few and with enough samples,   *)
(*                    reset and reconfiguration                            *)
(*   SpecFusionRace   process_imu_data and reset statement by statement    *)
(***************************************************************************)
\* the board at rest and level, the board on its side and turning, the board
\* in free fall, the board on its side with a magnetometer reading
FlatSample(t) == IMUData(<<0, 0, Gravity>>, <<0, 0, 0>>, <<0, 0, 0>>, t)
TiltedSample(t) == IMUData(<<Gravity, 0, 0>>, <<0, 0, 10 * FP>>, <<0, 0, 0>>, t)
FreeFallSample(t) == IMUData(<<0, 0, 0>>, <<0, 0, 0>>, <<0, 0, 0>>, t)
MagSample(t) == IMUData(<<Gravity, 0, 0>>, <<0, 0, 0>>, <<20 * FP, 5 * FP, 10 * FP>>, t)

FusionSamples ==
    {FlatSample(FP), TiltedSample(FP), TiltedSample(2 * FP), FreeFallSample(FP),
     MagSample(FP)}

ResetMessage == [command |-> "reset_sensor_fusion", id |-> "r1"]
WindowMessage == [command |-> "configure_sensor_fusion", id |-> "r2", smoothing_window |-> 1]
GainMessage ==
    [command |-> "configure_sensor_fusion", id |-> "r3", smoothing_window |-> 2,
     madgwick_beta |-> Div(FP, 5), use_magnetometer |-> FALSE]

NextFusion ==
    \/ \E s \in FusionSamples : ProcessImuData("reader_COM3", s)
    \/ \E w \in {WSOrder[1]} : Connect(w)
    \/ \E w \in {WSOrder[1]} : \E m \in {ResetMessage, WindowMessage} :
          HandleCommand(w, m, FALSE)

SpecFusion == Init /\ [][NextFusion]_vars

NextCalibration ==
    \/ \E s \in {TiltedSample(FP), TiltedSample(2 * FP)} : ProcessImuData("reader_COM3", s)
    \/ \E n \in {MinCalibrationSamples - 1, MinCalibrationSamples} :
          Calibrate("loop", MagSample(FP), n)
    \/ \E w \in {WSOrder[1]} : Connect(w)
    \/ \E w \in {WSOrder[1]} : \E m \in {ResetMessage, GainMessage} :
          HandleCommand(w, m, FALSE)

SpecCalibration == Init /\ [][NextCalibration]_vars

NextFusionRace ==
    \/ \E c \in ReaderCallers : ImuBegin(c, TiltedSample(FP))
    \/ \E c \in ReaderCallers : ImuTestLastUpdateTime(c)
    \/ \E c \in ReaderCallers : ImuTimeDelta(c)
    \/ \E c \in ReaderCallers : ImuUpdateRead(c)
    \/ \E c \in ReaderCallers : ImuUpdateWrite(c)
    \/ \E c \in ReaderCallers : ImuOrientation(c)
    \/ \E c \in ReaderCallers : ImuSmooth(c)
    \/ \E w \in {WSOrder[1]} : Connect(w)
    \/ \E w \in {WSOrder[1]} : ResetQuaternion(w, ResetMessage)
    \/ \E w \in {WSOrder[1]} : ResetHistory(w)
    \/ \E w \in {WSOrder[1]} : ResetLastUpdateTime(w)

SpecFusionRace == Init /\ [][NextFusionRace]_vars

(***************************************************************************)
(* Properties.                                                             *)
(***************************************************************************)
IsConsole(e) == e.type = "console_data"
IsTelemetry(e) == e.type = "telemetry_data"
EndedPcs == {"done", "crashed"}

\* C1 (SpecOrder): every client receives the console events, and the
\* telemetry events, of the port's lines in the order the lines were read.
C1_SubscriberSeesPublishOrder ==
    \A w \in WS : \A i, j \in 1..Len(wire[w]) :
        (i < j /\ wire[w][i].type = wire[w][j].type) => wire[w][i].n < wire[w][j].n

\* C2 (SpecOrder): the console broadcast of a line is scheduled before its
\* telemetry broadcast, and no client is sent the telemetry event of a line
\* before the console event of that line.
C2_ConsoleBeforeTelemetry ==
    /\ \A t \in 1..Len(tasks) :
          IsTelemetry(tasks[t].msg) =>
             \E u \in 1..(t - 1) :
                IsConsole(tasks[u].msg) /\ tasks[u].msg.n = tasks[t].msg.n
    /\ \A w \in WS : \A i, j \in 1..Len(wire[w]) :
          ~(i < j /\ IsTelemetry(wire[w][i]) /\ IsConsole(wire[w][j])
                  /\ wire[w][i].n = wire[w][j].n)

\* C3 (SpecFailure): when a broadcast has ended, the clients whose send failed
\* in it are out of the connection set, and the other clients that were in
\* the set throughout were sent the event.
C3_FailedSubscriberDetached ==
    lastEnded.pc \in EndedPcs =>
       /\ lastEnded.failed \cap connections = {}
       /\ lastEnded.failed # {} =>
             (lastEnded.stable \ lastEnded.failed) \subseteq lastEnded.attempted

\* C4 (SpecFailure): a broadcast calls send_text on every client that is in
\* the connection set from its start to its end.
C4_SendAttemptedToEveryStableSubscriber ==
    lastEnded.pc \in EndedPcs => lastEnded.stable \subseteq lastEnded.attempted

\* C5 (SpecFailure): disconnect never raises, a second disconnect of the same
\* socket changes nothing, disconnect of a socket that is not in the set
\* leaves the set as it is, and so no endpoint coroutine and no broadcast dies
\* in disconnect.
C5_DisconnectIdempotent ==
    /\ \A w \in WS :
          LET once == disconnect(connections, w)
              twice == disconnect(once.conns, w)
          IN  /\ ~once.raised /\ ~twice.raised
              /\ twice.conns = once.conns
              /\ w \notin connections => once.conns = connections
    /\ \A w \in WS : sockets[w] # "failed"

\* a broadcast removed the socket after its send failed, and then the socket's
\* endpoint called disconnect on it again
C5_Witness ==
    \E w \in WS :
        /\ sockets[w] = "closed"
        /\ lastEnded.pc = "done"
        /\ w \in lastEnded.failed

\* C6 (Spec): the reader thread is never held up by the event loop: inside
\* the callback its next step can always be taken, and between lines it can
\* always read the next one, whatever the broadcasts are doing.
C6_ReaderNeverWaits ==
    /\ reader.pc = "parse" => ENABLED ProcessSerialData
    /\ reader.pc = "annotate" => ENABLED AnnotateSourcePort
    /\ (reader.pc = "idle" /\ Len(readLog) < MaxLines) =>
          ENABLED (\E line \in Lines : ReadLine(line))

\* the thread has read and processed a second line while a send of an event of
\* the first line is still pending
C6_Witness ==
    /\ reader.pc = "idle"
    /\ Len(readLog) = 2
    /\ ~IsBlank(readLog[2])
    /\ \E t \in 1..Len(tasks) : tasks[t].msg.n = 1 /\ tasks[t].pc = "awaiting"

\* the broadcasts scheduled on the loop that have not ended
Backlog == Cardinality({t \in 1..Len(tasks) : tasks[t].pc \notin EndedPcs})

\* C7 (Spec): while a client is connected, the number of events waiting on the
\* loop stays under a threshold (here: under the number of events the port's
\* lines can produce at all).
C7_BacklogBounded ==
    (\E w \in connections : sockets[w] = "open") => Backlog < 2 * MaxLines

\* the lines whose callback has returned
Processed == {i \in 1..Len(readLog) : i < Len(readLog) \/ reader.pc = "idle"}
Published(type, i) ==
    {t \in 1..Len(tasks) : tasks[t].msg.type = type /\ tasks[t].msg.n = i}
ProducesRecord(line) ==
    Truthy(parse_data(parsers, active_parser, auto_detect, line))

C9_TelemetryCarriesSourcePort ==
    \A t \in 1..Len(tasks) : IsTelemetry(tasks[t].msg) => tasks[t].msg.port = Port

\* the fields process_telemetry_packet merges into a record
orientation_fields ==
    {"orientation_roll", "orientation_pitch", "orientation_yaw",
     "quaternion_w", "quaternion_x", "quaternion_y", "quaternion_z"}

\* C10 (Spec): a telemetry event whose record has the six IMU fields carries
\* the orientation fields and _sensor_fusion = true.
C10_TelemetryCarriesOrientation ==
    \A w \in WS : \A i \in 1..Len(wire[w]) :
        (IsTelemetry(wire[w][i]) /\ required_fields \subseteq DOMAIN wire[w][i].data) =>
           /\ orientation_fields \subseteq DOMAIN wire[w][i].data
           /\ DictGet(wire[w][i].data, "_sensor_fusion", FALSE) = TRUE

\* the record a telemetry message was made with, as it was when
\* data_callback_for_broadcast was called with it (no parser command is part
\* of Spec: the configuration is the one of Init)
RecordAtPublish(n) == parse_data(parsers, active_parser, auto_detect, readLog[n]).v

\* C11 (Spec): the record a client receives in a telemetry event is the record
\* as it was when data_callback_for_broadcast handed it to the hub.
C11_ReceivedRecordIsRecordAtPublish ==
    \A w \in WS : \A i \in 1..Len(wire[w]) :
        IsTelemetry(wire[w][i]) => wire[w][i].data = RecordAtPublish(wire[w][i].n)

(***************************************************************************)
(* Properties of parse_data.  The call is the step of the reader thread    *)
(* that leaves pc = "parse"; what it returned is seen in the state after.  *)
(***************************************************************************)
\* what the parse_data call of this step returns
Returned == IF reader'.pc = "annotate" THEN Some(records'[reader'.ref]) ELSE None
ParseDataReturns == reader.pc = "parse" /\ reader'.pc # "parse"

\* the decoders that say yes to the line, and those that also return a record
Accepting(ps, line) == {i \in 1..Len(ps) : validate_format(ps[i], line)}
Decoding(ps, line) == {i \in Accepting(ps, line) : Truthy(parse(ps[i], line))}
First(S) == CHOOSE i \in S : \A j \in S : i <= j

\* C12 (SpecParser): in Auto mode the result of parse_data is the decode
\* result of the first decoder, in registration order, whose validate_format
\* returns true (none when no decoder accepts the line).
C12_FirstAcceptingDecoderWins ==
    [][(ParseDataReturns /\ auto_detect) =>
          Returned = (IF Accepting(parsers, CurLine) = {} THEN None
                      ELSE parse(parsers[First(Accepting(parsers, CurLine))], CurLine))
      ]_vars

\* C13 (SpecParser): a successful set_active_parser makes a registered decoder
\* the active one and switches auto-detection off; while auto-detection is
\* off the result of parse_data is the decode result of the active decoder,
\* whatever the other decoders make of the line; and the active decoder
\* changes only with a successful set_active_parser or enable_auto_detection.
C13_PinnedModeAsksOnlyActiveParser ==
    [][/\ (ParseDataReturns /\ ~auto_detect) =>
             /\ active_parser.some
             /\ Returned = parse(active_parser.v, CurLine)
             /\ Returned.some => Returned.v["_parser"] = active_parser.v.format_name
       /\ (/\ CommandsHandled(WSOrder[1])' = CommandsHandled(WSOrder[1]) + 1
           /\ wire'[WSOrder[1]][Len(wire'[WSOrder[1]])] =
                 response("set_active_parser", TRUE))
          => /\ ~auto_detect'
             /\ active_parser'.some
             /\ active_parser'.v \in {parsers[i] : i \in 1..Len(parsers)}
       /\ (~auto_detect /\ active_parser' # active_parser) =>
             /\ CommandsHandled(WSOrder[1])' = CommandsHandled(WSOrder[1]) + 1
             /\ wire'[WSOrder[1]][Len(wire'[WSOrder[1]])] \in
                   {response("set_active_parser", TRUE),
                    response("enable_auto_detection", TRUE)}
      ]_vars

\* JSON is the active decoder and the thread has just parsed an ARMED line,
\* which the auto-detect loop would have decoded: there is no record of it
C13_Witness ==
    /\ ~auto_detect
    /\ active_parser = Some(JSONParser)
    /\ reader.pc = "idle"
    /\ Len(readLog) = 1
    /\ readLog[1] = ArmedLine
    /\ records = <<>>
    /\ CommandsHandled(WSOrder[1]) = 1

\* the default decoders that return a record for the line when asked
DefaultDecoding(line) ==
    {i \in 1..Len(DefaultParsers) : Truthy(parse(DefaultParsers[i], line))}

\* C14 as claimed (SpecParser): at most one default decoder returns a record
\* for the line, and in Auto mode the decoder of the returned record had
\* accepted the line.
C14_AtMostOneDecoderDecodes ==
    [][ParseDataReturns =>
          /\ Cardinality(DefaultDecoding(CurLine)) <= 1
          /\ (auto_detect /\ Returned.some) =>
                \E i \in Accepting(parsers, CurLine) : Returned = parse(parsers[i], CurLine)
      ]_vars

\* C14 amended (SpecParser): in Auto mode the returned record is the record of
\* one decoder, the first in registration order that accepts the line and
\* returns a record; nothing is returned when there is no such decoder.
C14_FirstDecodingDecoderIsChosen ==
    [][(ParseDataReturns /\ auto_detect) =>
          IF Decoding(parsers, CurLine) = {} THEN Returned = None
          ELSE /\ Returned = parse(parsers[First(Decoding(parsers, CurLine))], CurLine)
               /\ Returned.v["_parser"] =
                     parsers[First(Decoding(parsers, CurLine))].format_name
      ]_vars

\* in Auto mode the thread has parsed the ARMED line, which both ARMED and
\* SENTINEL decode when asked, and the record is the one of ARMED
C14_Witness ==
    /\ auto_detect
    /\ reader.pc = "annotate"
    /\ CurLine = ArmedLine
    /\ Cardinality(DefaultDecoding(CurLine)) = 2
    /\ records[reader.ref]["_parser"] = Armed_format_name

\* C15 (SpecParser): in Auto mode every line that satisfies the ARMED format
\* is decoded by ARMED_TELEMETRY.
C15_ArmedLineDecodedByArmed ==
    [][(ParseDataReturns /\ auto_detect /\ Armed_validate_format(CurLine)) =>
          /\ Returned.some
          /\ Returned.v["_parser"] = Armed_format_name
      ]_vars

\* C16 (SpecParser): in Auto mode every line that is a JSON object is decoded
\* with _parser = JSON.
C16_JsonObjectDecodedByJson ==
    [][(ParseDataReturns /\ auto_detect /\ CurLine.json = "object") =>
          /\ Returned.some
          /\ Returned.v["_parser"] = JSON_format_name
      ]_vars

(***************************************************************************)
(* Properties of the ARMED decoder, over the records of the ARMED lines    *)
(* the thread has parsed.                                                  *)
(***************************************************************************)
ArmedRecords ==
    {r \in 1..Len(records) : records[r]["_parser"] = Armed_format_name}
Abs(x) == IF x < 0 THEN -x ELSE x

\* C17 (SpecArmed): in every ARMED record that has gps_valid, the three GPS
\* fields are the integers of the line and gps_valid is true exactly when
\* gps_satellites >= 4, |gps_lat_1e7| > 100000 and |gps_lon_1e7| > 100000.
C17_GpsValidIffFix ==
    \A r \in ArmedRecords :
        "gps_valid" \in DOMAIN records[r] =>
            LET d == records[r]
                line == d["_raw_data"]
            IN  /\ d["gps_lat_1e7"] = line.parts[13].num
                /\ d["gps_lon_1e7"] = line.parts[14].num
                /\ d["gps_satellites"] = line.parts[15].num
                /\ d["gps_valid"] <=>
                      (/\ d["gps_satellites"] >= 4
                       /\ Abs(d["gps_lat_1e7"]) > 100000
                       /\ Abs(d["gps_lon_1e7"]) > 100000)

\* two records on the two sides of the latitude limit, both with 4 satellites
C17_Witness ==
    \E r1, r2 \in ArmedRecords :
        /\ "gps_valid" \in DOMAIN records[r1] /\ "gps_valid" \in DOMAIN records[r2]
        /\ records[r1]["gps_satellites"] = 4 /\ records[r2]["gps_satellites"] = 4
        /\ records[r1]["gps_lat_1e7"] = -100001 /\ records[r1]["gps_valid"]
        /\ records[r2]["gps_lat_1e7"] = -100000 /\ ~records[r2]["gps_valid"]

\* the unit conversions: raw field, its position in the line (index + 1),
\* converted field, divisor
UnitConversions ==
    {<<"accel_x_mg", 4, "accel_x_g", 1000>>, <<"accel_y_mg", 5, "accel_y_g", 1000>>,
     <<"accel_z_mg", 6, "accel_z_g", 1000>>,
     <<"gyro_x_centidps", 7, "gyro_x_dps", 100>>,
     <<"gyro_y_centidps", 8, "gyro_y_dps", 100>>,
     <<"gyro_z_centidps", 9, "gyro_z_dps", 100>>,
     <<"mag_x_decisla", 10, "mag_x_ut", 10>>, <<"mag_y_decisla", 11, "mag_y_ut", 10>>,
     <<"mag_z_decisla", 12, "mag_z_ut", 10>>,
     <<"gps_lat_1e7", 13, "gps_lat_deg", 10000000>>,
     <<"gps_lon_1e7", 14, "gps_lon_deg", 10000000>>}

\* C18 (SpecArmed): in every ARMED record a raw field is the integer at its
\* position of the line, a converted field is its raw field divided by the
\* unit's divisor, and the converted fields are there when the raw fields of
\* all three axes (of both coordinates) are.
C18_UnitConversions ==
    \A r \in ArmedRecords :
        LET d == records[r]
            line == d["_raw_data"]
            group(c) == {e \in UnitConversions : e[4] = c[4]}
        IN  \A c \in UnitConversions :
                /\ c[1] \in DOMAIN d =>
                      line.parts[c[2]].kind = "int" /\ d[c[1]] = line.parts[c[2]].num
                /\ c[3] \in DOMAIN d =>
                      c[1] \in DOMAIN d /\ d[c[3]] = Ratio(d[c[1]], c[4])
                /\ (\A e \in group(c) : e[1] \in DOMAIN d) => c[3] \in DOMAIN d

\* the record of <05/27/2025,11:43:46,0.95,-37,-967,-3,128,-27,204,6,-53,20,1,1,0,24>
\* and a record that has lost its accelerometer for one bad axis
C18_Witness ==
    /\ \E r \in ArmedRecords :
          /\ {"accel_x_g", "gyro_y_dps", "mag_z_ut", "gps_lat_deg"} \subseteq DOMAIN records[r]
          /\ records[r]["accel_x_g"] = Ratio(-37, 1000)
          /\ records[r]["gyro_y_dps"] = Ratio(-27, 100)
          /\ records[r]["mag_z_ut"] = Ratio(20, 10)
          /\ records[r]["gps_lat_deg"] = Ratio(1, 10000000)
    /\ \E r \in ArmedRecords :
          /\ "accel_x_g" \notin DOMAIN records[r]
          /\ "gyro_x_dps" \in DOMAIN records[r]

\* the records published for line i
RecordsOf(i) ==
    {tasks[t].msg.data.ref : t \in Published("telemetry_data", i)}

\* C19 (SpecArmed): every line that passes ARMED's validate_format has a
\* record of ARMED, in which each of the fields 2..15 whose value converts
\* is present with its converted value and each whose value does not convert
\* is absent.
C19_BadFieldDroppedRecordKept ==
    \A i \in Processed :
        Armed_validate_format(readLog[i]) =>
            \E r \in RecordsOf(i) :
                /\ records[r]["_parser"] = Armed_format_name
                /\ \A k \in 3..16 :
                      LET name == Armed_field_mapping[k]
                          conv == Armed_convert_value(name, readLog[i].parts[k])
                      IN  IF conv.some
                          THEN name \in DOMAIN records[r] /\ records[r][name] = conv.v
                          ELSE name \notin DOMAIN records[r]

\* the modes SpecRace switches between
RaceModes ==
    {[active_parser |-> None, auto_detect |-> TRUE],
     [active_parser |-> Some(ArmedStateTelemetryParser), auto_detect |-> FALSE]}

\* what process_serial_data returns for the line in a given mode
ResultIn(mode, line) ==
    LET parsed == parse_data(parsers, mode.active_parser, mode.auto_detect, line)
    IN  IF Truthy(parsed) THEN Some(DictSet(parsed.v, "_source_port", Port)) ELSE None

\* C20 (SpecRace): whatever mode commands run while a line is parsed, the
\* result for the line is the result in the mode before or in the mode after
\* the command.  (Every mode of SpecRace, with any decoders added, gives the
\* record of ARMED for an ARMED line, so that record is the result.)
C20_ReconfigurationIsAtomic ==
    \A i \in Processed :
        \E mode \in RaceModes :
            IF ResultIn(mode, readLog[i]).some
            THEN \E r \in RecordsOf(i) : records[r] = ResultIn(mode, readLog[i]).v
            ELSE RecordsOf(i) = {}

(***************************************************************************)
(* Properties of the fusion engine.                                        *)
(***************************************************************************)
\* the step is the return of a process_imu_data call of caller c
ImuReturns(c) ==
    /\ frames'[c].op = "process_imu_data"
    /\ frames'[c].pc = "idle"
    /\ ~frames'[c].raised
    /\ frames[c].pc # "idle" \/ frames'[c].began # frames[c].began

\* the step is a calibrate call of caller c
CalibrateReturns(c) ==
    frames'[c].op = "calibrate" /\ frames'[c].began = frames[c].began + 1

\* the step is a reset_sensor_fusion command of client w, handled at once
ResetReturns(w) ==
    /\ Len(inbox'[w]) = Len(inbox[w]) + 1
    /\ DictGet(inbox'[w][Len(inbox'[w])], "command", "None") = "reset_sensor_fusion"
    /\ Len(wire'[w]) = Len(wire[w]) + 1

\* two calls ran at the same time: b began while a, and only a, was running,
\* and no call began after b
Concurrent(a, b) ==
    /\ a # b
    /\ frames[a].op # "none" /\ frames[b].op # "none"
    /\ frames[a].during = {} /\ frames[b].during = {a}
    /\ frames[b].ticket = frames[a].ticket + 1
    /\ frames[b].ticket = TotalBegan - 1

\* the object after the call of a frame has run alone on the object s
Apply(frame, s) ==
    IF frame.op = "reset" THEN reset(s) ELSE process_imu_data(s, frame.imu_data).self

IsUnitQuaternion(q) == ~q.nan /\ Norm(q.v) \in (FP - 2)..(FP + 2)

\* C22 (SpecFusion): when process_imu_data returns, for any samples so far
\* (a zero accelerometer vector and a zero correction step included), the
\* filter quaternion has norm 1 and is the quaternion of the orientation
\* returned.
C22_QuaternionStaysUnit ==
    [][\A c \in Callers :
          ImuReturns(c) =>
              /\ IsUnitQuaternion(fusion'.madgwick.quaternion)
              /\ frames'[c].result.v.quaternion = fusion'.madgwick.quaternion]_vars

\* roll in (-180, 180], pitch in [-90, 90], yaw in [0, 360)
AnglesInRange(o) ==
    /\ ~o.roll.nan /\ o.roll.x > -180 * FP /\ o.roll.x <= 180 * FP
    /\ ~o.pitch.nan /\ o.pitch.x >= -90 * FP /\ o.pitch.x <= 90 * FP
    /\ ~o.yaw.nan /\ o.yaw.x >= 0 /\ o.yaw.x < 360 * FP

\* C23 (SpecFusion): every orientation process_imu_data returns, raw or
\* smoothed, has roll in (-180, 180], pitch in [-90, 90] and yaw in [0, 360).
C23_AnglesInRange ==
    [][\A c \in Callers : ImuReturns(c) => AnglesInRange(frames'[c].result.v)]_vars

\* C24 (SpecFusion): when process_imu_data returns, after any process_imu_data,
\* configure_sensor_fusion and reset calls, the orientation history holds at
\* most the configured number of entries.
C24_HistoryWithinWindow ==
    [][\A c \in Callers :
          ImuReturns(c) =>
              Len(fusion'.orientation_history) <= fusion'.history_size]_vars

\* what a calibration sets
Calibration(self) ==
    <<self.accel_offset, self.gyro_offset, self.mag_offset, self.mag_scale,
      self.is_calibrated>>

\* C25 (SpecCalibration): calibrate with fewer than 10 samples changes none of
\* the offsets, the magnetometer scale or is_calibrated; with 10 or more
\* is_calibrated is true afterwards; a process_imu_data call returns an
\* orientation and does not raise, whether the engine is calibrated or not.
C25_CalibrateNeedsTenSamples ==
    [][\A c \in Callers :
          /\ CalibrateReturns(c) =>
                IF frames'[c].samples < 10
                THEN Calibration(fusion') = Calibration(fusion)
                ELSE fusion'.is_calibrated
          /\ frames'[c].op = "process_imu_data" /\ frames'[c].began # frames[c].began =>
                /\ fusion.is_calibrated \in BOOLEAN
                /\ ~frames'[c].raised
                /\ frames'[c].result.some]_vars

\* a calibration with enough samples has been made and process_imu_data has
\* returned an orientation after it
C25_Witness ==
    /\ frames["loop"].op = "calibrate"
    /\ frames["loop"].samples >= 10
    /\ fusion.is_calibrated
    /\ fusion.mag_offset # <<0, 0, 0>>
    /\ frames["reader_COM3"].op = "process_imu_data"
    /\ frames["reader_COM3"].ticket > frames["loop"].ticket
    /\ frames["reader_COM3"].result.some

\* what configure_sensor_fusion sets
Configuration(self) ==
    <<self.use_magnetometer, self.madgwick.beta, self.history_size>>

\* C26 (SpecCalibration): reset sets the quaternion to (1, 0, 0, 0), empties the
\* orientation history and sets last_update_time to None, and leaves the
\* calibration and the configuration as they were; a process_imu_data call
\* that finds last_update_time None uses the nominal sample period as dt.
C26_ResetEffect ==
    [][/\ \A w \in WS :
             ResetReturns(w) =>
                 /\ fusion'.madgwick.quaternion = IdentityQuaternion
                 /\ fusion'.orientation_history = <<>>
                 /\ fusion'.last_update_time = None
                 /\ Calibration(fusion') = Calibration(fusion)
                 /\ Configuration(fusion') = Configuration(fusion)
       /\ \A c \in Callers :
             ImuReturns(c) /\ ~fusion.last_update_time.some =>
                 frames'[c].dt = Div(FP, SampleRate)]_vars

\* process_imu_data has returned after a reset of a calibrated, reconfigured
\* engine that had processed samples before
C26_Witness ==
    /\ frames["reader_COM3"].op = "process_imu_data"
    /\ frames["reader_COM3"].ticket >= 2
    /\ frames["reader_COM3"].before.last_update_time = None
    /\ frames["reader_COM3"].before.is_calibrated
    /\ frames["reader_COM3"].before.history_size # DefaultHistorySize
    /\ frames["reader_COM3"].dt = Div(FP, SampleRate)
    /\ \E i \in 1..Len(inbox[WSOrder[1]]) :
          DictGet(inbox[WSOrder[1]][i], "command", "None") = "reset_sensor_fusion"

(***************************************************************************)
(* The command handler: one client sends command messages, each a JSON     *)
(* object, and handle_serial_command answers each.                         *)
(***************************************************************************)
\* the command messages the client sends
Messages ==
    {[command |-> "list_ports", id |-> "m1"],
     [command |-> "open_port", id |-> "m2", port |-> Port],
     [command |-> "open_port", id |-> "m3"],
     [command |-> "close_port", id |-> "m4", port |-> Port],
     [command |-> "write_port", id |-> "m5", port |-> Port, data |-> "ping"],
     [command |-> "write_port_line", id |-> "m6", port |-> Port],
     [command |-> "read_port", id |-> "m7", port |-> Port],
     [command |-> "read_port_line", id |-> "m8", port |-> "COM9"],
     [command |-> "is_port_open", id |-> "m9", port |-> Port],
     [command |-> "get_port_info", id |-> "m10", port |-> Port],
     [command |-> "close_all_ports", id |-> "m11"],
     [command |-> "get_parser_info", id |-> "m12"],
     [command |-> "set_active_parser", id |-> "m13", parser_name |-> JSON_format_name],
     [command |-> "set_active_parser", id |-> "m14", parser_name |-> "UNKNOWN"],
     [command |-> "set_active_parser", id |-> "m15"],
     [command |-> "enable_auto_detection", id |-> "m16"],
     [command |-> "add_custom_parser", id |-> "m17", delimiter |-> ";"],
     [command |-> "add_custom_parser", id |-> "m18", parser_name |-> "CSV"],
     [command |-> "configure_sentinel_parser", id |-> "m19",
      field_mapping |-> [key |-> "temperature"]],
     [command |-> "configure_sentinel_parser", id |-> "m25",
      field_mapping |-> ("3" :> "temperature") @@ ("14" :> "battery")],
     [command |-> "set_active_parser", id |-> "m26",
      parser_name |-> Sentinel_format_name],
     [command |-> "configure_sensor_fusion", id |-> "m20", smoothing_window |-> 3],
     [command |-> "reset_sensor_fusion", id |-> "m21"],
     [command |-> "reboot", id |-> "m22"],
     [command |-> "list_ports"],
     [id |-> "m24"]}

NextCommands ==
    \/ \E w \in {WSOrder[1]} : Connect(w)
    \/ \E w \in {WSOrder[1]} : \E m \in Messages : \E timed_out \in BOOLEAN :
          HandleCommand(w, m, timed_out)

SpecCommands == Init /\ [][NextCommands]_vars

\* the command names handle_serial_command has a branch for
DocumentedCommands ==
    {"list_ports", "open_port", "close_port", "write_port", "write_port_line",
     "read_port", "read_port_line", "is_port_open", "get_port_info",
     "close_all_ports", "get_parser_info", "set_active_parser",
     "enable_auto_detection", "add_custom_parser", "configure_sentinel_parser",
     "configure_sensor_fusion", "reset_sensor_fusion"}

\* the step is handle_serial_command, called with a message of client w
CommandReturns(w) == Len(inbox'[w]) = Len(inbox[w]) + 1

\* the message of the step and the dict sent back for it
Request(w) == inbox'[w][Len(inbox'[w])]
Reply(w) == wire'[w][Len(wire'[w])].data

\* C27 (SpecCommands): every command message handled yields exactly one
\* response, with the id of the request, type "response", the command name and
\* a boolean success; a command name outside the documented set yields success
\* false and an error that names the command.
C27_OneResponsePerCommand ==
    [][\A w \in WS :
          CommandReturns(w) =>
              /\ Len(wire'[w]) = Len(wire[w]) + 1
              /\ wire'[w][Len(wire'[w])].type = "response"
              /\ {"id", "type", "command", "success"} \subseteq DOMAIN Reply(w)
              /\ Reply(w).id = DictGet(Request(w), "id", "unknown")
              /\ Reply(w).type = "response"
              /\ Reply(w).command = DictGet(Request(w), "command", "None")
              /\ Reply(w).success \in BOOLEAN
              /\ Reply(w).command \notin DocumentedCommands =>
                    /\ Reply(w).success = FALSE
                    /\ "error" \in DOMAIN Reply(w)
                    /\ Reply(w).error = ErrorText("Unknown command: ", Reply(w).command)]_vars

\* a command outside the documented set has been answered after another command
C27_Witness ==
    \E w \in WS :
        /\ Len(inbox[w]) = 2
        /\ CommandsHandled(w) = 2
        /\ DictGet(inbox[w][2], "command", "None") = "reboot"
        /\ wire[w][Len(wire[w])].data.id = "m22"
        /\ wire[w][Len(wire[w])].data.success = FALSE

\* the arguments of the message are invalid: a parser name that is not
\* registered, or a custom parser without a delimiter
InvalidArguments(message) ==
    \/ /\ DictGet(message, "command", "None") = "set_active_parser"
       /\ "parser_name" \in DOMAIN message
       /\ \A i \in 1..Len(parsers) : parsers[i].format_name # message["parser_name"]
    \/ /\ DictGet(message, "command", "None") = "add_custom_parser"
       /\ "delimiter" \notin DOMAIN message

\* C28 (SpecCommands): a command with invalid arguments (set_active_parser with
\* a name that is not registered, add_custom_parser without a delimiter) is
\* answered with success false and an error message field.
C28_InvalidArgumentsGiveError ==
    [][\A w \in WS :
          CommandReturns(w) /\ InvalidArguments(Request(w)) =>
              /\ Reply(w).success = FALSE
              /\ "error" \in DOMAIN Reply(w)]_vars

(***************************************************************************)
(* The callback list: callbacks are registered and lines are parsed.       *)
(***************************************************************************)
NextCallbacks ==
    \/ \E callback \in Callbacks : AddDataCallback(callback)
    \/ \E line \in Lines : ParseData(line)

SpecCallbacks == Init /\ [][NextCallbacks]_vars

\* C30 (SpecCallbacks): a parse_data call that produces a record invokes every
\* registered callback exactly once, with the record, in registration order,
\* whether or not some of them raise, and returns the record it returns with no
\* callback registered; a call that produces no record invokes none.
C30_EveryCallbackOnceInOrder ==
    \A i \in DOMAIN parseLog :
        /\ parseLog[i].returned =
              parse_data_and_callbacks(parsers, active_parser, auto_detect, <<>>,
                                       parseLog[i].line).returned
        /\ IF Truthy(parseLog[i].returned)
           THEN /\ Len(parseLog[i].invoked) = Len(parseLog[i].callbacks)
                /\ \A k \in DOMAIN parseLog[i].callbacks :
                      /\ parseLog[i].invoked[k].callback = parseLog[i].callbacks[k]
                      /\ parseLog[i].invoked[k].arg = parseLog[i].returned.v
           ELSE parseLog[i].invoked = <<>>

\* a record has been produced with a raising callback registered before
\* another callback, and a line has produced no record
C30_Witness ==
    /\ \E i \in DOMAIN parseLog :
          /\ Truthy(parseLog[i].returned)
          /\ Len(parseLog[i].callbacks) = 3
          /\ parseLog[i].callbacks[2] = "raising_callback"
          /\ parseLog[i].invoked[2].raised
          /\ parseLog[i].invoked[3].callback = "returning_callback"
    /\ \E i \in DOMAIN parseLog :
          ~Truthy(parseLog[i].returned) /\ parseLog[i].callbacks # <<>>

(***************************************************************************)
(* The serial manager: two clients open and close the port while the       *)
(* reader threads run.                                                     *)
(***************************************************************************)
OpenMessage == [command |-> "open_port", id |-> "o1", port |-> Port]
CloseMessage == [command |-> "close_port", id |-> "c1", port |-> Port]
CloseAllMessage == [command |-> "close_all_ports", id |-> "c2"]

NextSerial ==
    \/ \E w \in WS : Connect(w)
    \/ \E w \in WS : \E m \in {OpenMessage, CloseMessage, CloseAllMessage} :
          \E timed_out \in BOOLEAN : HandleCommand(w, m, timed_out)
    \/ \E i \in DOMAIN threads : ThreadTest(i)
    \/ \E i \in DOMAIN threads : ThreadSleep(i)
    \/ \E i \in DOMAIN threads : \E line \in {ArmedLine, BlankLine} : ThreadRead(i, line)

SpecSerial == Init /\ [][NextSerial]_vars

\* C29 (SpecSerial): once close_serial_port has returned for the port of a
\* reader thread, whether its join timed out or not and whatever commands come
\* later, that thread does not invoke the data callback again, and when it
\* next tests its loop condition it ends.
C29_ClosedReaderStaysSilent ==
    [][\A i \in DOMAIN threads :
          threads[i].closed =>
              /\ threads'[i].callbacks = threads[i].callbacks
              /\ threads[i].pc = "while" /\ threads'[i].pc # "while"
                    => ~Alive(threads'[i])]_vars

(***************************************************************************)
(* NMEA sentences: the port delivers lines that start with '$' and contain *)
(* '*', with fewer and with more than ten comma-separated parts.           *)
(***************************************************************************)
\* the parts of a sentence, as text
NmeaLine(parts) ==
    MkLine("$", "", TRUE, [i \in DOMAIN parts |-> Text(parts[i])], "invalid", EmptyDict)

\* $GPGGA,123519,4807.038,N,01131.000,E,1,08,0.9,545.4,M,46.9,M,,*47
GpggaLine ==
    [NmeaLine(<<"GPGGA", "123519", "4807.038", "N", "01131.000", "E", "1", "08",
                "0.9", "545.4", "M", "46.9", "M", "", "*47">>)
        EXCEPT !.parts[2] = IntTok("123519", 123519),
               !.parts[3] = FloatTok("4807.038", 4807038, 1000),
               !.parts[5] = FloatTok("01131.000", 1131000, 1000),
               !.parts[7] = IntTok("1", 1),
               !.parts[8] = IntTok("08", 8),
               !.parts[9] = FloatTok("0.9", 9, 10),
               !.parts[10] = FloatTok("545.4", 5454, 10),
               !.parts[12] = FloatTok("46.9", 469, 10)]

\* $GPRMC,123519,A,4807.038,N,01131.000,E,022.4,084.4,230394,003.1,W*6A
GprmcLine ==
    NmeaLine(<<"GPRMC", "123519", "A", "4807.038", "N", "01131.000", "E", "022.4",
               "084.4", "230394", "003.1", "W*6A">>)

\* $GPVTG,054.7,T,034.4,M,005.5,N,010.2,K*48
GpvtgLine ==
    NmeaLine(<<"GPVTG", "054.7", "T", "034.4", "M", "005.5", "N", "010.2", "K*48">>)

\* $GPGLL,4916.45,N,12311.12,W,225444,A*31
GpgllLine == NmeaLine(<<"GPGLL", "4916.45", "N", "12311.12", "W", "225444", "A*31">>)

\* $GPZDA,201530.00,04,07,2002,00,00*60
GpzdaLine == NmeaLine(<<"GPZDA", "201530.00", "04", "07", "2002", "00", "00*60">>)

\* $GPGSA,A,3,04,05,,09,12,,,24,,,,,2.5,1.3,2.1*39
GpgsaLine ==
    NmeaLine(<<"GPGSA", "A", "3", "04", "05", "", "09", "12", "", "", "24", "", "",
               "", "", "2.5", "1.3", "2.1*39">>)

NmeaLines == {GpggaLine, GprmcLine, GpvtgLine, GpgllLine, GpzdaLine, GpgsaLine}

NextNmea ==
    \/ \E line \in NmeaLines : ReadLine(line)
    \/ ProcessSerialData
    \/ AnnotateSourcePort

SpecNmea == Init /\ [][NextNmea]_vars

\* C31 (SpecNmea): with the default decoders in Auto mode, every line that
\* starts with '$' and contains '*' yields a record with _parser = NMEA_GPS.
C31_NmeaLineDecodedByNmea ==
    [][(ParseDataReturns /\ auto_detect /\ parsers = DefaultParsers
          /\ NMEA_validate_format(CurLine)) =>
          /\ Returned.some
          /\ Returned.v["_parser"] = NMEA_format_name
      ]_vars

(***************************************************************************)
(* Smoothing and the integration step of process_imu_data.                 *)
(***************************************************************************)
\* the orientation the filter holds, before smoothing
RawOrientation(self) ==
    orientation_degrees(get_euler_angles(self.madgwick), self.madgwick.quaternion)

\* C32 (SpecCalibration): process_imu_data returns the raw roll, pitch and
\* yaw while the history holds fewer than 3 orientations and their weighted
\* mean once it holds 3 or more; the quaternion returned is always the
\* filter's latest one.
C32_RawUntilThreeThenWeightedMean ==
    [][\A c \in Callers : ImuReturns(c) =>
          LET history == fusion'.orientation_history
              returned == frames'[c].result.v
              raw == RawOrientation(fusion')
              w == weights(Len(history))
          IN  /\ frames'[c].result.some
              /\ returned.quaternion = fusion'.madgwick.quaternion
              /\ Len(history) < 3 => returned = raw
              /\ Len(history) >= 3 =>
                    /\ returned.roll =
                          WeightedSum([i \in DOMAIN history |-> history[i].roll], w)
                    /\ returned.pitch =
                          WeightedSum([i \in DOMAIN history |-> history[i].pitch], w)
                    /\ returned.yaw = smoothed(history, raw).yaw
      ]_vars

\* a call has returned with three orientations in the history, and what it
\* returned is not the raw orientation it appended
C32_Witness ==
    /\ Len(fusion.orientation_history) >= 3
    /\ \E c \in Callers :
          /\ frames[c].op = "process_imu_data"
          /\ frames[c].pc = "idle"
          /\ frames[c].result.some
          /\ frames[c].result.v # fusion.orientation_history[Len(fusion.orientation_history)]
          /\ frames[c].result.v.quaternion = fusion.madgwick.quaternion

\* C33 (SpecCalibration): in each process_imu_data call the Madgwick
\* quaternion is integrated over the dt of that sample, which is
\* max(ts - last_ts, 0.001 s) after a previous sample and the nominal sample
\* period on the first call.
C33_IntegratedOverSampleDt ==
    [][\A c \in Callers : ImuReturns(c) =>
          LET imu_data == frames'[c].imu_data
              dt == frames'[c].dt
          IN  /\ dt = time_delta(fusion, imu_data.timestamp)
              /\ fusion'.madgwick.quaternion =
                    Madgwick_update([fusion.madgwick EXCEPT !.sample_period = dt],
                                    calibrated_gyro(fusion, imu_data),
                                    calibrated_accel(fusion, imu_data),
                                    calibrated_mag(fusion, imu_data)).quaternion
      ]_vars

(***************************************************************************)
(* The event loop inside a command.  handle_serial_command is a coroutine  *)
(* that calls the serial manager without awaiting: from the call to its    *)
(* return the loop thread is inside close_serial_port or                   *)
(* read_serial_port_line, and frames["loop"] says where.                   *)
(***************************************************************************)
ReadLineMessage == [command |-> "read_port_line", id |-> "l1", port |-> Port]

\* the response of the command the loop is in, and the state it leaves
CommandCompletes(w, timed_out) ==
    \E r \in {handle_serial_command(inbox[w][Len(inbox[w])], HandlerState, timed_out)} :
       /\ serial' = r.st.serial
       /\ threads' = r.st.threads
       /\ wire' = [wire EXCEPT ![w] = Append(@, [type |-> "response", port |-> "",
                                                 n |-> 0, data |-> r.response])]
       /\ frames' = [frames EXCEPT !["loop"].pc = "idle"]
       /\ sockets' = [sockets EXCEPT ![w] = "open"]
       /\ UNCHANGED <<parserVars, connections, tasks, lastEnded, readerVars, fusion,
                      callbackVars, inbox>>

\* a close_port command for a port with a reader thread arrives:
\* close_serial_port sets the stop event and calls join(timeout=2.0)
ClosePortJoin(w, message) ==
    /\ sockets[w] = "open"
    /\ CommandsHandled(w) < MaxCommands
    /\ AllIdle
    /\ message["port"] \in DOMAIN serial.stop_reading
    /\ message["port"] \in DOMAIN serial.read_threads
    /\ threads' = close_set_stop(serial, threads, message["port"])
    /\ frames' = [frames EXCEPT !["loop"].pc = "join", !["loop"].op = "close_port"]
    /\ sockets' = [sockets EXCEPT ![w] = "in_close_port"]
    /\ inbox' = [inbox EXCEPT ![w] = Append(@, message)]
    /\ UNCHANGED <<parserVars, connections, wire, tasks, lastEnded, readerVars, fusion,
                   serial, callbackVars>>

\* the join returns, because the thread has ended or because 2 s have passed;
\* the rest of close_serial_port runs and the response is sent
ClosePortReturns(w, timed_out) ==
    /\ sockets[w] = "in_close_port"
    /\ frames["loop"].pc = "join"
    /\ timed_out \/ ~Alive(threads[serial.read_threads[Port]])
    /\ CommandCompletes(w, timed_out)

\* a read_port_line command for an open port arrives: read_serial_port_line
\* calls ser.readline(), which waits for a line or for the timeout of the port
ReadPortLineRead(w, message) ==
    /\ sockets[w] = "open"
    /\ CommandsHandled(w) < MaxCommands
    /\ AllIdle
    /\ message["port"] \in serial.connections
    /\ frames' = [frames EXCEPT !["loop"].pc = "readline",
                                !["loop"].op = "read_port_line"]
    /\ sockets' = [sockets EXCEPT ![w] = "in_read_port_line"]
    /\ inbox' = [inbox EXCEPT ![w] = Append(@, message)]
    /\ UNCHANGED <<parserVars, connections, wire, tasks, lastEnded, readerVars, fusion,
                   serialVars, callbackVars>>

\* readline returns and the response is sent
ReadPortLineReturns(w) ==
    /\ sockets[w] = "in_read_port_line"
    /\ frames["loop"].pc = "readline"
    /\ CommandCompletes(w, TRUE)

NextLoop ==
    \/ \E w \in {WSOrder[1]} : Connect(w)
    \/ \E w \in {WSOrder[1]} : HandleCommand(w, OpenMessage, FALSE)
    \/ \E w \in {WSOrder[1]} : ClosePortJoin(w, CloseMessage)
    \/ \E w \in {WSOrder[1]} : \E timed_out \in BOOLEAN : ClosePortReturns(w, timed_out)
    \/ \E w \in {WSOrder[1]} : ReadPortLineRead(w, ReadLineMessage)
    \/ \E w \in {WSOrder[1]} : ReadPortLineReturns(w)
    \/ \E i \in DOMAIN threads : ThreadTest(i)
    \/ \E i \in DOMAIN threads : ThreadSleep(i)
    \/ \E i \in DOMAIN threads : ThreadRead(i, ArmedLine)
    \/ \E t \in DOMAIN tasks : StartBroadcast(t)
    \/ \E t \in DOMAIN tasks : ResumeBroadcast(t)

SpecLoop == Init /\ [][NextLoop]_vars

\* C34 (SpecLoop): handling a command never blocks the event loop on serial
\* I/O or on the join of a reader thread: while the loop is inside a command,
\* a broadcast that is scheduled on it can take its next step.
C34_BroadcastsProgressDuringCommand ==
    (/\ frames["loop"].pc \in {"join", "readline"}
     /\ \E t \in DOMAIN tasks : tasks[t].pc \in {"queued", "awaiting"})
        => ENABLED (\E t \in DOMAIN tasks : StartBroadcast(t) \/ ResumeBroadcast(t))

\* C35 (SpecSerial): at every moment at most one reader thread is running
\* _read_continuously for a port, after any sequence of open_port, close_port
\* and close_all_ports commands, whether the joins time out or not.
C35_AtMostOneReaderPerPort ==
    \A i, j \in DOMAIN threads :
       (Alive(threads[i]) /\ Alive(threads[j]) /\ threads[i].port = threads[j].port)
          => i = j

(***************************************************************************)
(* The mode of the parser manager under the commands of a client.          *)
(***************************************************************************)
\* the step is a set_active_parser command of client w whose parser_name no
\* registered decoder has
UnknownNameReturns(w) ==
    /\ CommandReturns(w)
    /\ DictGet(Request(w), "command", "None") = "set_active_parser"
    /\ DictGet(Request(w), "parser_name", "") # ""
    /\ \A i \in 1..Len(parsers) : parsers[i].format_name # Request(w)["parser_name"]

\* C36 (SpecCommands): set_active_parser with a name that matches no
\* registered decoder returns False and leaves auto_detect, active_parser and
\* the decoder list as they were, so every line is parsed as before the call.
C36_UnknownNameChangesNothing ==
    [][\A w \in WS :
          UnknownNameReturns(w) =>
              /\ Reply(w).success = FALSE
              /\ auto_detect' = auto_detect
              /\ active_parser' = active_parser
              /\ parsers' = parsers
              /\ \A line \in Lines \cup NmeaLines :
                    parse_data(parsers', active_parser', auto_detect', line)
                       = parse_data(parsers, active_parser, auto_detect, line)]_vars

\* a decoder was pinned and a set_active_parser with an unknown name has been
\* answered after it: the decoder is still pinned
C36_Witness ==
    \E w \in WS :
        /\ Len(inbox[w]) = 2
        /\ CommandsHandled(w) = 2
        /\ DictGet(inbox[w][2], "command", "None") = "set_active_parser"
        /\ DictGet(inbox[w][2], "parser_name", "") = "UNKNOWN"
        /\ wire[w][Len(wire[w])].data.success = FALSE
        /\ ~auto_detect
        /\ active_parser.some

\* what makes a decoder the object it is: its class, its name, its delimiter
Identity(parser) == <<parser.cls, parser.format_name, parser.delimiter>>

\* auto_detect is true exactly when no decoder is active, an active decoder
\* is in the list, and the list begins with the four default decoders
ModeConsistent(ps, active, auto) ==
    /\ auto <=> ~active.some
    /\ active.some => \E i \in 1..Len(ps) : ps[i] = active.v
    /\ Len(ps) >= Len(DefaultParsers)
    /\ \A i \in 1..Len(DefaultParsers) : Identity(ps[i]) = Identity(DefaultParsers[i])

\* C37 (SpecCommands): after any sequence of set_active_parser,
\* enable_auto_detection, add_custom_parser and configure_sentinel_parser
\* commands auto_detect is true exactly when active_parser is None, an active
\* decoder is an element of the decoder list, and the list is only appended
\* to: the four defaults stay first, in the order ARMED, SENTINEL, NMEA, JSON.
C37_ModeConsistentListAppendOnly ==
    [][/\ ModeConsistent(parsers, active_parser, auto_detect)
       /\ ModeConsistent(parsers', active_parser', auto_detect')
       /\ Len(parsers') >= Len(parsers)
       /\ \A i \in 1..Len(parsers) : Identity(parsers'[i]) = Identity(parsers[i])
       /\ <<Identity(parsers'[1]), Identity(parsers'[2]), Identity(parsers'[3]),
            Identity(parsers'[4])>>
             = <<Identity(ArmedStateTelemetryParser), Identity(SentinelTelemetryParser),
                 Identity(NMEAParser), Identity(JSONParser)>>]_vars

\* the SENTINEL decoder was pinned and then configured: the active decoder is
\* the configured one
C37_Witness ==
    /\ ~auto_detect
    /\ active_parser.some
    /\ active_parser.v.cls = "SentinelTelemetryParser"
    /\ active_parser.v.field_mapping # Sentinel_field_mapping
    /\ active_parser.v = parsers[2]

(***************************************************************************)
(* Read errors: the device of an open port goes away and the reader thread *)
(* of the port finds out.                                                  *)
(***************************************************************************)
\* the body of the loop when `self.connections[port].in_waiting` raises:
\* `except Exception` logs the error and breaks, the thread ends; nothing is
\* removed from the dicts of the manager
ThreadError(i) ==
    /\ i \in DOMAIN threads
    /\ threads[i].pc = "body"
    /\ threads[i].port \in serial.connections
    /\ threads' = [threads EXCEPT ![i].pc = "finished"]
    /\ UNCHANGED <<parserVars, hubVars, readerVars, fusionVars, serial, callbackVars,
                   inbox>>

NextReadError ==
    \/ \E w \in WS : Connect(w)
    \/ \E w \in WS : \E m \in {OpenMessage, CloseMessage} :
          \E timed_out \in BOOLEAN : HandleCommand(w, m, timed_out)
    \/ \E i \in DOMAIN threads : ThreadTest(i)
    \/ \E i \in DOMAIN threads : ThreadSleep(i)
    \/ \E i \in DOMAIN threads : ThreadRead(i, ArmedLine)
    \/ \E i \in DOMAIN threads : ThreadError(i)

SpecReadError == Init /\ [][NextReadError]_vars

\* C38 (SpecReadError): whenever is_port_open(port) is true for a port that
\* was opened with a data callback, a reader thread of that port is running,
\* after any sequence of opens, closes and read errors.
C38_OpenPortHasReader ==
    \A port \in DevicePorts :
       (is_port_open(serial, port) /\ port \in serial.data_callbacks)
          => \E i \in DOMAIN threads : threads[i].port = port /\ Alive(threads[i])

====
